---- MODULE Spec2Model ----
(***************************************************************************)
(* Crowd-occupancy forecasting core of the repository, as three backend    *)
(* services that each run in a process of their own:                       *)
(*   "engine"    analysis-backend: ModelManager, HoltsLinearModel,         *)
(*               DataCollector, PredictionEngine and the /api/predictions  *)
(*               routes;                                                   *)
(*   "predictor" predictiveAnalysis: poller.js and predictor.js loops over *)
(*               the crowds table, holt.js and preprocess.js;              *)
(*   "arima"     predictive-analysis-backend: the setInterval predictor of *)
(*               ARIMAEngine.js with HoltLinearModel/PredictionGenerator.  *)
(* The variable svc names the service a behaviour is about.                *)
(*                                                                         *)
(* Numbers.  JavaScript doubles are modelled in fixed point: a level, a    *)
(* trend or a raw forecast v is the integer round(v * Scale); smoothing    *)
(* coefficients are integers per mille (0.2 is 200).  Every product is     *)
(* rounded to the nearest unit (RoundDiv), Math.round is RoundFx.          *)
(***************************************************************************)
EXTENDS Integers, Sequences, FiniteSets, TLC

----------------------------------------------------------------------------
(* Bounds of the model *)

\* observations the sources deliver in one behaviour
MaxPoints == 2
\* periods of the schedule the wall clock runs through
MaxTicks == 1
\* prediction cycles in flight at once
MaxCycles == 2
\* entries of the error log of the engine
MaxLogged == 2

----------------------------------------------------------------------------
(* Fixed-point arithmetic *)

Scale == 10 * 10 * 10

Fx(n) == n * Scale

Min(a, b) == IF a <= b THEN a ELSE b

Max(a, b) == IF a >= b THEN a ELSE b

\* a / b rounded to the nearest integer, halves up (b > 0)
RoundDiv(a, b) == (2 * a + b) \div (2 * b)

\* coefficient (per mille) times a fixed-point value
MulPm(pm, x) == RoundDiv(pm * x, 1000)

\* Math.round of a fixed-point value: nearest integer, halves towards +Infinity
RoundFx(x) == (2 * x + Scale) \div (2 * Scale)

Abs(x) == IF x < 0 THEN -x ELSE x

----------------------------------------------------------------------------
(* JSON values that reach the services as a count *)

Num(n) == [typ |-> "number", val |-> n]

\* a non-numeric count, e.g. the string "abc"
NonNumeric == [typ |-> "string", val |-> 0]

\* NaN, as parseInt / Number produce it
NaN == [typ |-> "NaN", val |-> 0]

\* parseInt(raw): integers parse to themselves, "abc" to NaN
ParseInt(raw) == IF raw.typ = "number" THEN raw ELSE NaN

IsNaN(x) == x.typ = "NaN"

----------------------------------------------------------------------------
(* analysis-backend: HoltsLinearModel *)

\* lastUpdateTime = null
NoTime == 0 - 1

\* maxHistoryLength of a model
MaxHistoryLength == 50

\* the trend limit of applyHoltsUpdate, people per minute
TrendLimit == 10

\* new HoltsLinearModel(alpha, beta, id): level and trend are null (0 here)
\* until the model is initialized
NewModel(alpha, beta) ==
  [alpha |-> alpha, beta |-> beta, level |-> 0, trend |-> 0,
   isInitialized |-> FALSE, dataPointsProcessed |-> 0,
   lastUpdateTime |-> NoTime, history |-> <<>>]

\* the validation of update(): typeof observation !== 'number' || observation < 0
InvalidObservation(obs) == obs.typ = "string" \/ (obs.typ = "number" /\ obs.val < 0)

\* an initialization that starts the trend at one person per minute
InitializeModelTrending(m, x) ==
  [m EXCEPT !.level = Fx(x), !.trend = Fx(1), !.isInitialized = TRUE]

\* initializeModel: level is the first observation, trend 0
InitializeModel(m, x) ==
  [m EXCEPT !.level = Fx(x), !.trend = 0, !.isInitialized = TRUE]

\* the trend of applyHoltsUpdate before its limit is applied
HoltTrend(m, newLevel) ==
  MulPm(m.beta, newLevel - m.level) + MulPm(1000 - m.beta, m.trend)

\* applyHoltsUpdate: Holt's level and trend equations, then the +-10 limit
ApplyHoltsUpdate(m, x) ==
  LET newLevel == MulPm(m.alpha, Fx(x)) + MulPm(1000 - m.alpha, m.level + m.trend)
      newTrend == HoltTrend(m, newLevel)
  IN  [m EXCEPT !.level = newLevel,
                !.trend = Max(-Fx(TrendLimit), Min(Fx(TrendLimit), newTrend))]

\* addToHistory: push, and shift once the history is over maxHistoryLength
AddToHistory(m, x, ts) ==
  LET h == Append(m.history,
                  [value |-> x, timestamp |-> ts, level |-> m.level, trend |-> m.trend])
  IN  [m EXCEPT !.history = IF Len(h) > MaxHistoryLength THEN Tail(h) ELSE h]

\* update(observation, timestamp) of an observation that passed the validation
Update(m, x, ts) ==
  LET smoothed == IF m.isInitialized THEN ApplyHoltsUpdate(m, x) ELSE InitializeModel(m, x)
      tracked  == [smoothed EXCEPT !.dataPointsProcessed = @ + 1, !.lastUpdateTime = ts]
  IN  AddToHistory(tracked, x, ts)

\* getState()
GetState(m) ==
  [level |-> m.level, trend |-> m.trend, alpha |-> m.alpha, beta |-> m.beta,
   isInitialized |-> m.isInitialized, dataPointsProcessed |-> m.dataPointsProcessed,
   lastUpdateTime |-> m.lastUpdateTime]

\* state.f || dflt, for a field the object may not have
FieldOr(state, f, dflt) == IF f \in DOMAIN state THEN state[f] ELSE dflt

\* setState(state): reads level, trend, alpha, beta, isInitialized,
\* dataPointsProcessed and lastUpdateTime of the object it is given
SetState(m, state) ==
  [m EXCEPT !.level = state.level,
            !.trend = state.trend,
            !.alpha = IF FieldOr(state, "alpha", 0) # 0 THEN state.alpha ELSE m.alpha,
            !.beta = IF FieldOr(state, "beta", 0) # 0 THEN state.beta ELSE m.beta,
            !.isInitialized = FieldOr(state, "isInitialized", FALSE),
            !.dataPointsProcessed = FieldOr(state, "dataPointsProcessed", 0),
            !.lastUpdateTime = FieldOr(state, "lastUpdateTime", NoTime)]

\* forecast(h) for h > 0: 0 for a model that is not initialized, else
\* Math.max(0, Math.round(level + h * trend))
Forecast(m, h) ==
  IF ~m.isInitialized THEN 0 ELSE Max(0, RoundFx(m.level + h * m.trend))

\* getConfidence(h), in percent
GetConfidence(m, h) ==
  LET base == 95 - h
      c1 == IF Abs(m.trend) > Fx(2) THEN base - 10 ELSE base
      c2 == IF m.dataPointsProcessed < 5 THEN c1 - 20 ELSE c1
  IN  Max(50, Min(95, c2))

----------------------------------------------------------------------------
(* State *)

VARIABLES
  svc,                \* the service this behaviour is about
  now,                \* wall clock, minutes
  \* ---- analysis-backend ("engine")
  models,             \* ModelManager.models: zone id -> HoltsLinearModel
  buildingConfigs,    \* ModelManager.buildingConfigs: zone id -> configuration
  buildings,          \* PredictionEngine.buildings
  timePatterns,       \* DataCollector.timePatterns / mockBaseValues: zones with a mock pattern
  mockMode,           \* DataCollector.mockMode
  modelStates,        \* table model_states: zone id -> row
  pendingSaves,       \* saveModelState calls in flight
  requests,           \* POST /data handlers suspended in loadModelState
  cycles,             \* runPredictionCycle calls in flight
  isRunning,          \* PredictionEngine.isRunning
  cronJob,            \* PredictionEngine.cronJob is scheduled
  predictionCache,    \* PredictionEngine.predictionCache, in insertion order
  lastPredictionTime, \* PredictionEngine.lastPredictionTime
  errors,             \* PredictionEngine.errors
  response,           \* what the last finished operation answered
  \* ---- predictiveAnalysis ("predictor")
  crowds,             \* table crowds of the source database, in ts order
  predictions,        \* table predictions of the target database: per zone and
                      \* horizon the row inserted last
  poller,             \* the loop of startPoller
  predictor,          \* the loop of startPredictor
  stopped,            \* the loops whose stop function has been called
  \* ---- predictive-analysis-backend ("arima")
  forecasts,          \* table predictions of the target database: the row of a
                      \* building and interval, if there is one
  runs,               \* cycle() calls in flight
  interval,           \* the setInterval of startPredictor is set
  \* ---- functions called on their own ("calc")
  args,               \* the arguments of the call
  result              \* what the call returned

engineVars ==
  <<models, buildingConfigs, buildings, timePatterns, mockMode, modelStates,
    pendingSaves, requests, cycles, isRunning, cronJob, predictionCache,
    lastPredictionTime, errors, response>>

predictorVars == <<crowds, predictions, poller, predictor, stopped>>

arimaVars == <<forecasts, runs, interval>>

calcVars == <<args, result>>

vars == <<svc, now, engineVars, predictorVars, arimaVars, calcVars>>

----------------------------------------------------------------------------
(* analysis-backend: ModelManager *)

\* zone ids: B1 is in the catalog of the server, Z99 is in no catalog
Zones == {"B1", "Z99"}

\* BUILDINGS of the server, its first entry
BUILDINGS == <<[id |-> "B1", type |-> "academic", capacity |-> 300]>>

\* capacity of the fallback configuration
FallbackCapacity == 200

\* the fallback configuration of updateModel and of POST /data
FallbackBuilding(z) == [id |-> z, type |-> "academic", capacity |-> FallbackCapacity]

\* getOptimalParameters(type, capacity), per mille
GetOptimalParameters(type, capacity) ==
  LET base == CASE type \in {"lecture", "lecture_hall"} -> [alpha |-> 150, beta |-> 80]
                [] type \in {"lab", "computer_lab"}     -> [alpha |-> 250, beta |-> 120]
                [] type \in {"library", "study_area"}   -> [alpha |-> 180, beta |-> 150]
                [] type \in {"cafeteria", "dining"}     -> [alpha |-> 300, beta |-> 100]
                [] type \in {"auditorium", "hall"}      -> [alpha |-> 200, beta |-> 50]
                [] OTHER                                -> [alpha |-> 200, beta |-> 100]
      sized == IF capacity > 500
                 THEN [alpha |-> RoundDiv(base.alpha * 9, 10), beta |-> RoundDiv(base.beta * 9, 10)]
                 ELSE IF capacity < 50
                   THEN [alpha |-> RoundDiv(base.alpha * 11, 10), beta |-> RoundDiv(base.beta * 11, 10)]
                   ELSE base
  IN  [alpha |-> Max(100, Min(400, sized.alpha)), beta |-> Max(50, Min(300, sized.beta))]

\* f with key k set to v (Map.set)
MapSet(f, k, v) == [x \in DOMAIN f \cup {k} |-> IF x = k THEN v ELSE f[x]]

\* the empty Map
EmptyMap == [x \in {} |-> 0]

\* initializeBuilding up to its await: the model it creates (lines 62-71)
CreateModel(building) ==
  LET params == GetOptimalParameters(building.type, building.capacity)
  IN  NewModel(params.alpha, params.beta)

\* what loadModelState can answer: the row of the zone, or null when there is
\* none, or an error of the database
LoadOutcomes(rows, z) ==
  (IF z \in DOMAIN rows THEN {[kind |-> "row", row |-> rows[z]]} ELSE {[kind |-> "none"]})
    \cup {[kind |-> "error"]}

\* initializeBuilding after its await: setState of a saved row (lines 74-82)
RestoreModel(m, outcome) ==
  IF outcome.kind = "row" THEN SetState(m, outcome.row) ELSE m

\* the row saveModelAsync hands to saveModelState (last_updated and
\* created_at are columns nothing reads)
SnapshotRow(z, state) ==
  [zone |-> z,
   row |-> [level |-> state.level, trend |-> state.trend, alpha |-> state.alpha,
            beta |-> state.beta, data_points_processed |-> state.dataPointsProcessed]]

\* updateModel once the zone has a model (lines 187-193): the update, the save
\* fired without being awaited, the state returned; an invalid observation
\* makes update() throw before anything is changed
UpdateStored(ms, saves, z, obs, ts) ==
  IF InvalidObservation(obs)
    THEN [ok |-> FALSE, error |-> "InvalidObservation", models |-> ms, saves |-> saves,
          state |-> GetState(ms[z])]
    ELSE LET m == Update(ms[z], obs.val, ts)
         IN  [ok |-> TRUE, error |-> "none", models |-> MapSet(ms, z, m),
              saves |-> saves \cup {SnapshotRow(z, GetState(m))},
              state |-> GetState(m)]

\* getPrediction(z, h) for h > 0
GetPrediction(ms, cfgs, z, h) ==
  IF z \notin DOMAIN ms
    THEN [ok |-> FALSE, error |-> "ModelNotFound", prediction |-> 0, confidence |-> 0]
    ELSE LET prediction == Forecast(ms[z], h)
             capacity == IF z \in DOMAIN cfgs THEN cfgs[z].capacity ELSE 0
         IN  [ok |-> TRUE, error |-> "none",
              prediction |-> Min(prediction, IF capacity # 0 THEN capacity ELSE prediction),
              confidence |-> GetConfidence(ms[z], h)]

\* getMultiHorizonPredictions(z, horizons): one entry per horizon
GetMultiHorizonPredictions(ms, cfgs, z, horizons) ==
  [h \in horizons |-> GetPrediction(ms, cfgs, z, h)]

----------------------------------------------------------------------------
(* analysis-backend: DataCollector *)

\* crowd counts generateBuildingMockData draws in the model
CountValues == {40}

\* counts as they arrive in a request body or in the answer of the real API
RawCounts == {Num(300), Num(0 - 5), NonNumeric}

\* an observation as collectData returns it
Observation(z, count, ts, source) ==
  [zone |-> z, count |-> count, ts |-> ts, source |-> source]

\* the ids of a list of buildings, in order
RECURSIVE BuildingIds(_)
BuildingIds(blds) ==
  IF blds = <<>> THEN <<>> ELSE <<Head(blds).id>> \o BuildingIds(Tail(blds))

\* the set of ids of a list of buildings
IdSet(blds) == {blds[i].id : i \in 1..Len(blds)}

\* the building of a list with a given id (Array.find / the Map of validateAndNormalizeData)
BuildingOf(blds, z) == blds[CHOOSE i \in 1..Len(blds) : blds[i].id = z]

\* generateMockData throws on a building that has no usage pattern
\* (pattern.baseline of undefined)
MockDataThrows(blds, patterns) == \E i \in 1..Len(blds) : blds[i].id \notin patterns

\* the counts generateBuildingMockData can produce: 0..capacity
MockCounts(building) == {c \in CountValues : c <= building.capacity}

\* generateMockData(buildings) for one choice of a count per building
RECURSIVE GenerateMockData(_, _, _)
GenerateMockData(blds, pick, ts) ==
  IF blds = <<>> THEN <<>>
  ELSE <<Observation(Head(blds).id, Num(pick[Head(blds).id]), ts, "mock")>>
         \o GenerateMockData(Tail(blds), pick, ts)

\* validateAndNormalizeData(rawData, buildings): a data point of an unknown
\* building is dropped; a count that is NaN or negative becomes 0; a count
\* over the capacity becomes the capacity
RECURSIVE ValidateAndNormalizeData(_, _, _)
ValidateAndNormalizeData(rawData, blds, ts) ==
  IF rawData = <<>> THEN <<>>
  ELSE LET d == Head(rawData)
           rest == ValidateAndNormalizeData(Tail(rawData), blds, ts)
       IN  IF d.zone \notin IdSet(blds) THEN rest
           ELSE LET parsed == ParseInt(d.count)
                    count == IF IsNaN(parsed) \/ parsed.val < 0 THEN 0 ELSE parsed.val
                    capped == Min(count, BuildingOf(blds, d.zone).capacity)
                IN  <<Observation(d.zone, Num(capped), ts, "real_api")>> \o rest

----------------------------------------------------------------------------
(* analysis-backend: PredictionEngine *)

\* the default horizons of generatePredictions
EngineHorizons == {5, 10, 15, 30}

\* entries the prediction cache keeps
CacheLimit == 10

\* maxErrors
MaxErrors == 100

\* logError: push, and shift once over maxErrors
LogError(errs, msg) ==
  LET e == Append(errs, msg) IN IF Len(e) > MaxErrors THEN Tail(e) ELSE e

\* generateCacheKey: the timestamp rounded down to 5 minutes
GenerateCacheKey(t) == (t \div 5) * 5

\* generatePredictions: per building of the engine, the predictions of every
\* horizon; a building whose model is missing is logged and left out
GeneratePredictions(ms, cfgs, blds) ==
  [z \in IdSet(blds) \cap DOMAIN ms |->
     [h \in EngineHorizons |->
        [prediction |-> GetMultiHorizonPredictions(ms, cfgs, z, EngineHorizons)[h].prediction,
         confidence |-> GetMultiHorizonPredictions(ms, cfgs, z, EngineHorizons)[h].confidence,
         capacity |-> BuildingOf(blds, z).capacity]]]

\* the errors generatePredictions logs, in the order of the buildings
RECURSIVE GenerationErrors(_, _, _)
GenerationErrors(errs, ms, ids) ==
  IF ids = <<>> THEN errs
  ELSE GenerationErrors(IF Head(ids) \in DOMAIN ms THEN errs
                        ELSE LogError(errs, "Prediction generation failed"),
                        ms, Tail(ids))

\* an eviction that deletes the second key of the Map instead of the first
EvictSecond(cache, grouped, t) ==
  LET entry == [key |-> GenerateCacheKey(t), timestamp |-> t, predictions |-> grouped]
      hit == {i \in 1..Len(cache) : cache[i].key = entry.key}
      set == IF hit # {} THEN [cache EXCEPT ![CHOOSE i \in hit : TRUE] = entry]
             ELSE Append(cache, entry)
  IN  IF Len(set) > CacheLimit THEN <<Head(set)>> \o Tail(Tail(set)) ELSE set

\* updatePredictionCache: Map.set under the 5-minute key (a key already in
\* the Map keeps its place), then the first key is deleted once over the limit
UpdatePredictionCache(cache, grouped, t) ==
  LET entry == [key |-> GenerateCacheKey(t), timestamp |-> t, predictions |-> grouped]
      hit == {i \in 1..Len(cache) : cache[i].key = entry.key}
      set == IF hit # {} THEN [cache EXCEPT ![CHOOSE i \in hit : TRUE] = entry]
             ELSE Append(cache, entry)
  IN  IF Len(set) > CacheLimit THEN Tail(set) ELSE set

\* getCachedPredictions(maxAgeMinutes): the first entry, in the order of the
\* Map, whose age is within maxAgeMinutes; null when there is none
GetCachedPredictions(cache, maxAge, t) ==
  LET fresh == {i \in 1..Len(cache) : t - cache[i].timestamp <= maxAge}
  IN  IF fresh = {} THEN [hit |-> FALSE]
      ELSE LET i == CHOOSE j \in fresh : \A k \in fresh : j <= k
           IN  [hit |-> TRUE, timestamp |-> cache[i].timestamp,
                predictions |-> cache[i].predictions, age |-> t - cache[i].timestamp]

\* the configuration updateModel registers an unknown zone with
FallbackConfig(cfgs, z) == IF z \in DOMAIN cfgs THEN cfgs[z] ELSE FallbackBuilding(z)

\* updateModels: updateModel per observation, in order, each failure caught;
\* it runs until an observation of a zone without a model makes updateModel
\* wait for loadModelState (rest then starts with that observation)
RECURSIVE UpdateModels(_, _, _, _)
UpdateModels(ms, cfgs, saves, data) ==
  IF data = <<>>
    THEN [models |-> ms, configs |-> cfgs, saves |-> saves, rest |-> <<>>]
    ELSE LET o == Head(data)
         IN  IF o.zone \in DOMAIN ms
               THEN LET r == UpdateStored(ms, saves, o.zone, o.count, o.ts)
                    IN  UpdateModels(r.models, cfgs, r.saves, Tail(data))
               ELSE [models |-> ms,
                     configs |-> MapSet(cfgs, o.zone, FallbackConfig(cfgs, o.zone)),
                     saves |-> saves, rest |-> data]

----------------------------------------------------------------------------
(* analysis-backend: the server and its operations *)

\* minutes of one period of the schedule '*/5 * * * *'; the clock of the
\* model advances by one period
ClockStep == 5

\* observations that are on their way into a model: those of waiting
\* requests, those a waiting collectData will bring (one per building), and
\* those a waiting updateModels still holds
InFlight ==
  LET Sum[i \in 0..Len(cycles)] ==
        IF i = 0 THEN 0
        ELSE Sum[i - 1] + (IF cycles[i].phase = "collecting" THEN Len(buildings)
                           ELSE Len(cycles[i].data))
  IN  Len(requests) + Sum[Len(cycles)]

\* observations the models have taken in
Processed ==
  LET zs == DOMAIN models
      Sum[S \in SUBSET zs] ==
        IF S = {} THEN 0
        ELSE LET z == CHOOSE x \in S : TRUE
             IN  models[z].dataPointsProcessed + Sum[S \ {z}]
  IN  Sum[zs]

\* observations the sources have delivered so far
Fed == Processed + InFlight

\* the sources have an observation left for every building
CanFeedAll == Fed + Len(buildings) <= MaxPoints

\* seed row of model_states (schema.sql)
SeedRows == [z \in {"B1"} |-> [level |-> Fx(15), trend |-> 0, alpha |-> 300, beta |-> 200,
                               data_points_processed |-> 0]]

\* what an answer carries when it carries no model state
NoState == [none |-> TRUE]

\* initializeBuildings(BUILDINGS) with the seed row restored
InitialModels ==
  [z \in {BUILDINGS[1].id} |->
     RestoreModel(CreateModel(BUILDINGS[1]), [kind |-> "row", row |-> SeedRows[z]])]

\* the process after initializePredictionServices is through
\* predictionEngine.initialize(BUILDINGS), before predictionEngine.start;
\* the database holds the seed rows of schema.sql
InitEngine ==
  /\ mockMode \in BOOLEAN
  /\ modelStates = SeedRows
  /\ models = InitialModels
  /\ buildingConfigs = [z \in {BUILDINGS[1].id} |-> BUILDINGS[1]]
  /\ buildings = BUILDINGS
  /\ timePatterns = {BUILDINGS[1].id}
  /\ pendingSaves = {}
  /\ requests = <<>>
  /\ cycles = <<>>
  /\ isRunning = FALSE
  /\ cronJob = FALSE
  /\ predictionCache = <<>>
  /\ lastPredictionTime = NoTime
  /\ errors = <<>>
  /\ response = [op |-> "none"]

\* s without its i-th element
RemoveAt(s, i) == SubSeq(s, 1, i - 1) \o SubSeq(s, i + 1, Len(s))

\* the clock advances
Tick ==
  /\ svc = "engine"
  /\ now < MaxTicks * ClockStep
  /\ now' = now + ClockStep
  /\ UNCHANGED <<svc, engineVars, predictorVars, arimaVars, calcVars>>

----------------------------------------------------------------------------
(* POST /api/predictions/data *)

\* the answer of POST /data
DataResponse(z, status, state) ==
  [op |-> "postData", zone |-> z, status |-> status, state |-> state]

\* the modelState of the 200 answer
ModelStateOf(state) ==
  [level |-> state.level, trend |-> state.trend,
   dataPointsProcessed |-> state.dataPointsProcessed]

\* POST /data from the request to its first wait: the 400 of the validation;
\* the update of a zone that has a model; else the registration, which waits
\* for loadModelState in initializeBuilding (through addBuilding when the
\* engine does not list the zone, through updateModel when it does)
PostData(z, raw) ==
  /\ svc = "engine" /\ isRunning
  /\ Fed < MaxPoints
  /\ IF raw.typ # "number" \/ raw.val < 0
       THEN /\ response' = DataResponse(z, 400, NoState)
            /\ UNCHANGED <<models, buildingConfigs, buildings, pendingSaves, requests>>
       ELSE IF z \in DOMAIN models
         THEN LET r == UpdateStored(models, pendingSaves, z, raw, now)
              IN  /\ models' = r.models
                  /\ pendingSaves' = r.saves
                  /\ response' = DataResponse(z, 200, ModelStateOf(r.state))
                  /\ UNCHANGED <<buildingConfigs, buildings, requests>>
         ELSE IF z \in IdSet(buildings)
           THEN /\ buildingConfigs' = MapSet(buildingConfigs, z, FallbackConfig(buildingConfigs, z))
                /\ requests' = Append(requests, [via |-> "updateModel", zone |-> z,
                                                 count |-> raw, ts |-> now])
                /\ UNCHANGED <<models, buildings, pendingSaves, response>>
           ELSE /\ buildings' = Append(buildings, FallbackBuilding(z))
                /\ buildingConfigs' = MapSet(buildingConfigs, z, FallbackBuilding(z))
                /\ requests' = Append(requests, [via |-> "addBuilding", zone |-> z,
                                                 count |-> raw, ts |-> now])
                /\ UNCHANGED <<models, pendingSaves, response>>
  /\ UNCHANGED <<svc, now, timePatterns, mockMode, modelStates, cycles, isRunning,
                 cronJob, predictionCache, lastPredictionTime, errors,
                 predictorVars, arimaVars, calcVars>>

\* a registration that sets no model: updateModel then throws 'Model not
\* found' and the route answers 500
RegistrationFails(i, outcome) ==
  /\ svc = "engine"
  /\ i \in 1..Len(requests)
  /\ outcome \in LoadOutcomes(modelStates, requests[i].zone)
  /\ response' = DataResponse(requests[i].zone, 500, NoState)
  /\ requests' = RemoveAt(requests, i)
  /\ UNCHANGED <<svc, now, models, buildingConfigs, buildings, timePatterns, mockMode,
                 modelStates, pendingSaves, cycles, isRunning, cronJob, predictionCache,
                 lastPredictionTime, errors, predictorVars, arimaVars, calcVars>>

\* loadModelState answers a waiting POST /data: initializeBuilding sets the
\* model, addBuilding adds the mock pattern, updateModel applies the
\* observation and fires the save, the route answers
FinishRegistration(i, outcome) ==
  /\ svc = "engine"
  /\ i \in 1..Len(requests)
  /\ LET rq == requests[i]
         z == rq.zone
     IN  /\ outcome \in LoadOutcomes(modelStates, z)
         /\ LET m == RestoreModel(CreateModel(buildingConfigs[z]), outcome)
                r == UpdateStored(MapSet(models, z, m), pendingSaves, z, rq.count, rq.ts)
            IN  /\ models' = r.models
                /\ pendingSaves' = r.saves
                /\ response' = IF r.ok THEN DataResponse(z, 200, ModelStateOf(r.state))
                               ELSE DataResponse(z, 500, NoState)
         /\ timePatterns' = IF rq.via = "addBuilding" THEN timePatterns \cup {z}
                            ELSE timePatterns
  /\ requests' = RemoveAt(requests, i)
  /\ UNCHANGED <<svc, now, buildingConfigs, buildings, mockMode, modelStates, cycles,
                 isRunning, cronJob, predictionCache, lastPredictionTime, errors,
                 predictorVars, arimaVars, calcVars>>

\* a saveModelState in flight reaches the table
SaveCompletes(s) ==
  /\ svc \in {"engine", "manager"}
  /\ s \in pendingSaves
  /\ modelStates' = MapSet(modelStates, s.zone, s.row)
  /\ pendingSaves' = pendingSaves \ {s}
  /\ UNCHANGED <<svc, now, models, buildingConfigs, buildings, timePatterns, mockMode,
                 requests, cycles, isRunning, cronJob, predictionCache,
                 lastPredictionTime, errors, response,
                 predictorVars, arimaVars, calcVars>>

\* a rejected saveModelState nothing catches: an unhandled rejection ends the
\* process
SaveUncaught(service) == "crashed"

\* what a rejected saveModelState does to the process: saveModelAsync catches
\* and logs it
SaveRejected(service) == service

\* a saveModelState in flight fails
SaveFails(s) ==
  /\ svc \in {"engine", "manager"}
  /\ s \in pendingSaves
  /\ pendingSaves' = pendingSaves \ {s}
  /\ svc' = SaveRejected(svc)
  /\ UNCHANGED <<now, models, buildingConfigs, buildings, timePatterns, mockMode,
                 modelStates, requests, cycles, isRunning, cronJob, predictionCache,
                 lastPredictionTime, errors, response,
                 predictorVars, arimaVars, calcVars>>

----------------------------------------------------------------------------
(* runPredictionCycle *)

\* what the real API can answer: no data point, or one
RealAnswers ==
  {<<>>} \cup {<<[zone |-> z, count |-> c]>> : z \in Zones, c \in RawCounts}

\* the counts generateMockData can draw for the buildings of the engine
MockPicks ==
  {pick \in [IdSet(buildings) -> CountValues] :
     \A z \in IdSet(buildings) : pick[z] \in MockCounts(BuildingOf(buildings, z))}

\* cycles with cycle c in slot i (a new slot when i is Len(cycles) + 1)
PutCycle(i, c) ==
  [j \in 1..Max(Len(cycles), i) |-> IF j = i THEN c ELSE cycles[j]]

\* the answer of POST /force-cycle
ForceResponse(status) == [op |-> "forceCycle", status |-> status]

\* runPredictionCycle with the collected data in hand (steps 2 to 4):
\* updateModels, which may have to wait for loadModelState; then
\* generatePredictions and updatePredictionCache, and the wait for the
\* savePrediction calls of storePredictions
CycleRuns(trigger, ms, data, i) ==
  LET u == UpdateModels(ms, buildingConfigs, pendingSaves, data)
  IN  /\ models' = u.models
      /\ buildingConfigs' = u.configs
      /\ pendingSaves' = u.saves
      /\ IF u.rest # <<>>
           THEN /\ cycles' = PutCycle(i, [trigger |-> trigger, phase |-> "loading",
                                          data |-> u.rest])
                /\ UNCHANGED <<predictionCache, errors>>
           ELSE /\ cycles' = PutCycle(i, [trigger |-> trigger, phase |-> "storing",
                                          data |-> <<>>])
                /\ predictionCache' =
                     UpdatePredictionCache(predictionCache,
                                           GeneratePredictions(u.models, u.configs, buildings),
                                           now)
                /\ errors' = GenerationErrors(errors, u.models, BuildingIds(buildings))

\* the catch of runPredictionCycle and what its caller does with the error:
\* start only prints it, the cron callback logs it, the route answers 500
CycleThrows(trigger, i) ==
  /\ errors' = IF trigger = "cron"
                 THEN LogError(LogError(errors, "Prediction cycle failed"),
                               "Scheduled prediction cycle failed")
                 ELSE LogError(errors, "Prediction cycle failed")
  /\ response' = IF trigger = "force" THEN ForceResponse(500) ELSE response
  /\ cycles' = RemoveAt(cycles, i)
  /\ UNCHANGED <<models, buildingConfigs, pendingSaves, predictionCache>>

\* generateMockData, and the cycle on with its data
CycleOnMockData(trigger, i) ==
  IF MockDataThrows(buildings, timePatterns)
    THEN CycleThrows(trigger, i)
    ELSE /\ \E pick \in MockPicks :
              CycleRuns(trigger, models, GenerateMockData(buildings, pick, now), i)
         /\ UNCHANGED response

\* runPredictionCycle from its call to its first wait: in mock mode the data
\* is there at once, else collectRealData waits for the real API
BeginCycle(trigger) ==
  /\ CanFeedAll
  /\ Len(cycles) < MaxCycles
  /\ Len(errors) < MaxLogged
  /\ IF mockMode
       THEN CycleOnMockData(trigger, Len(cycles) + 1)
       ELSE /\ cycles' = Append(cycles, [trigger |-> trigger, phase |-> "collecting",
                                         data |-> <<>>])
            /\ UNCHANGED <<models, buildingConfigs, pendingSaves, predictionCache,
                           errors, response>>

\* predictionEngine.start(schedule): the initial cycle, not awaited, and the
\* cron job
Start ==
  /\ svc = "engine" /\ ~isRunning
  /\ isRunning' = TRUE
  /\ cronJob' = TRUE
  /\ BeginCycle("initial")
  /\ UNCHANGED <<svc, now, buildings, timePatterns, mockMode, modelStates, requests,
                 lastPredictionTime,
                 predictorVars, arimaVars, calcVars>>

\* the cron job fires: its callback calls runPredictionCycle
CronFires ==
  /\ svc = "engine" /\ cronJob
  /\ BeginCycle("cron")
  /\ UNCHANGED <<svc, now, buildings, timePatterns, mockMode, modelStates, requests,
                 isRunning, cronJob, lastPredictionTime,
                 predictorVars, arimaVars, calcVars>>

\* POST /force-cycle: forcePredictionCycle calls runPredictionCycle
ForceCycle ==
  /\ svc = "engine" /\ isRunning
  /\ BeginCycle("force")
  /\ UNCHANGED <<svc, now, buildings, timePatterns, mockMode, modelStates, requests,
                 isRunning, cronJob, lastPredictionTime,
                 predictorVars, arimaVars, calcVars>>

\* the real API answers a waiting collectRealData: validateAndNormalizeData
FetchAnswers(i, realData) ==
  /\ svc = "engine"
  /\ i \in 1..Len(cycles) /\ cycles[i].phase = "collecting"
  /\ realData \in RealAnswers
  /\ CycleRuns(cycles[i].trigger, models,
               ValidateAndNormalizeData(realData, buildings, now), i)
  /\ UNCHANGED <<svc, now, buildings, timePatterns, mockMode, modelStates, requests,
                 isRunning, cronJob, lastPredictionTime, response,
                 predictorVars, arimaVars, calcVars>>

\* the real API fails a waiting collectRealData: the catch falls back to
\* generateMockData
FetchFails(i) ==
  /\ svc = "engine"
  /\ i \in 1..Len(cycles) /\ cycles[i].phase = "collecting"
  /\ CycleOnMockData(cycles[i].trigger, i)
  /\ UNCHANGED <<svc, now, buildings, timePatterns, mockMode, modelStates, requests,
                 isRunning, cronJob, lastPredictionTime,
                 predictorVars, arimaVars, calcVars>>

\* loadModelState answers an updateModel waiting in updateModels: the model
\* is set, the observation applied, and the cycle goes on
CycleLoadAnswers(i, outcome) ==
  /\ svc = "engine"
  /\ i \in 1..Len(cycles) /\ cycles[i].phase = "loading"
  /\ LET z == Head(cycles[i].data).zone
     IN  /\ outcome \in LoadOutcomes(modelStates, z)
         /\ CycleRuns(cycles[i].trigger,
                      MapSet(models, z, RestoreModel(CreateModel(buildingConfigs[z]), outcome)),
                      cycles[i].data, i)
  /\ UNCHANGED <<svc, now, buildings, timePatterns, mockMode, modelStates, requests,
                 isRunning, cronJob, lastPredictionTime, response,
                 predictorVars, arimaVars, calcVars>>

\* the savePrediction calls storePredictions waits for have settled: step 5
\* and the return of runPredictionCycle
CycleCompletes(i) ==
  /\ svc = "engine"
  /\ i \in 1..Len(cycles) /\ cycles[i].phase = "storing"
  /\ lastPredictionTime' = now
  /\ response' = IF cycles[i].trigger = "force" THEN ForceResponse(200) ELSE response
  /\ cycles' = RemoveAt(cycles, i)
  /\ UNCHANGED <<svc, now, models, buildingConfigs, buildings, timePatterns, mockMode,
                 modelStates, pendingSaves, requests, isRunning, cronJob,
                 predictionCache, errors,
                 predictorVars, arimaVars, calcVars>>

----------------------------------------------------------------------------
(* queries, cache, shutdown *)

\* horizons a client asks getPrediction for
QueryHorizons == {1, 15, 30}

\* maxAgeMinutes a client asks getCachedPredictions for
MaxAges == {0, 5, 10}

\* DELETE /cache: clearCache
ClearCache ==
  /\ svc = "engine" /\ isRunning
  /\ predictionCache # <<>>
  /\ predictionCache' = <<>>
  /\ UNCHANGED <<svc, now, models, buildingConfigs, buildings, timePatterns, mockMode,
                 modelStates, pendingSaves, requests, cycles, isRunning, cronJob,
                 lastPredictionTime, errors, response,
                 predictorVars, arimaVars, calcVars>>

\* SIGINT / SIGTERM: predictionEngine.stop() (the cron job stopped, the save
\* of every model fired) and, in the same turn, process.exit: the process
\* ends with its memory and with all that was in flight, the saves of stop()
\* included; the table stays
Shutdown ==
  /\ svc = "engine" /\ isRunning
  /\ isRunning' = FALSE
  /\ cronJob' = FALSE
  /\ svc' = "exited"
  /\ models' = EmptyMap
  /\ buildingConfigs' = EmptyMap
  /\ buildings' = <<>>
  /\ timePatterns' = {}
  /\ pendingSaves' = {}
  /\ requests' = <<>>
  /\ cycles' = <<>>
  /\ predictionCache' = <<>>
  /\ lastPredictionTime' = NoTime
  /\ errors' = <<>>
  /\ response' = [op |-> "none"]
  /\ UNCHANGED <<now, mockMode, modelStates,
                 predictorVars, arimaVars, calcVars>>

\* the answers loadModelState can give for some zone
AnyLoadOutcome == UNION {LoadOutcomes(modelStates, z) : z \in Zones}

NextEngine ==
  \/ Start
  \/ CronFires
  \/ ForceCycle
  \/ \E i \in 1..Len(cycles), realData \in RealAnswers : FetchAnswers(i, realData)
  \/ \E i \in 1..Len(cycles) : FetchFails(i)
  \/ \E i \in 1..Len(cycles), outcome \in AnyLoadOutcome : CycleLoadAnswers(i, outcome)
  \/ \E i \in 1..Len(cycles) : CycleCompletes(i)
  \/ \E z \in Zones, raw \in RawCounts : PostData(z, raw)
  \/ \E i \in 1..Len(requests), outcome \in AnyLoadOutcome : FinishRegistration(i, outcome)
  \/ \E s \in pendingSaves : SaveCompletes(s)
  \/ \E s \in pendingSaves : SaveFails(s)
  \/ ClearCache
  \/ Shutdown

----------------------------------------------------------------------------
(* predictiveAnalysis: holt.js *)

\* data: the numbers of a series, which the functions of holtForecast work
\* on, in thousandths
Data(series) == [i \in 1..Len(series) |-> Fx(series[i])]

\* initializeLevelTrend(values): the first value, and the mean of the first
\* min(5, n - 1) differences
InitializeLevelTrend(values) ==
  LET n == Len(values)
      m == Min(5, n - 1)
  IN  IF m <= 0 THEN [l |-> values[1], b |-> 0]
      ELSE [l |-> values[1], b |-> RoundDiv(values[m + 1] - values[1], m)]

\* a pass that scores the error against the level after its update
SmoothStepScoredAfter(st, x, a, b, phi) ==
  LET yhat == st.l + MulPm(phi, st.t)
      l == MulPm(a, x) + MulPm(1000 - a, yhat)
      t == MulPm(b, l - st.l) + MulPm(1000 - b, MulPm(phi, st.t))
      e == RoundDiv(x - (l + MulPm(phi, t)), 100)
  IN  [l |-> l, t |-> t, sse |-> st.sse + e * e]

\* one pass of the loop of smoothAndScore over value x; the squared error
\* is kept in units of 0.01
SmoothStep(st, x, a, b, phi) ==
  LET yhat == st.l + MulPm(phi, st.t)
      e == RoundDiv(x - yhat, 100)
      l == MulPm(a, x) + MulPm(1000 - a, yhat)
      t == MulPm(b, l - st.l) + MulPm(1000 - b, MulPm(phi, st.t))
  IN  [l |-> l, t |-> t, sse |-> st.sse + e * e]

\* smoothAndScore(values, a, b, phi)
RECURSIVE SmoothFrom(_, _, _, _, _)
SmoothFrom(st, rest, a, b, phi) ==
  IF rest = <<>> THEN st
  ELSE \* the state after the pass is bound, so that it is computed once
       CHOOSE r \in {SmoothFrom(next, Tail(rest), a, b, phi) :
                       next \in {SmoothStep(st, Head(rest), a, b, phi)}} : TRUE

SmoothAndScore(values, a, b, phi) ==
  LET init == InitializeLevelTrend(values)
  IN  SmoothFrom([l |-> init.l, t |-> init.b, sse |-> 0], Tail(values), a, b, phi)

\* phi + phi^2 + ... + phi^h, which is phi (1 - phi^h) / (1 - phi); the
\* powers and the sum are in millionths
RECURSIVE DampedSum(_, _, _)
DampedSum(phi, h, power) ==
  IF h = 0 THEN 0 ELSE MulPm(phi, power) + DampedSum(phi, h - 1, MulPm(phi, power))

\* a forecast that never damps the trend
HStepUndamped(l, t, phi, horizon) == IF horizon <= 0 THEN l ELSE l + horizon * t

\* hStepForecast(l, t, phi, horizon)
HStepForecast(l, t, phi, horizon) ==
  IF horizon <= 0 THEN l
  ELSE IF phi = 1000 THEN l + horizon * t
  ELSE LET sum == RoundDiv(DampedSum(phi, horizon, Scale * Scale), Scale)
       IN  l + (sum \div 1000) * t + MulPm(sum % 1000, t)

\* the candidates of the search, in the order the loops visit them
\* (alpha and beta of the call first, duplicates dropped)
PhiCandidates == <<900, 950, 980, 1000>>

Uniq(q) ==
  LET F[i \in 0..Len(q)] ==
        IF i = 0 THEN <<>>
        ELSE IF \E j \in 1..(i - 1) : q[j] = q[i] THEN F[i - 1] ELSE Append(F[i - 1], q[i])
  IN  F[Len(q)]

Clip01(v) == Max(10, Min(990, v))

AlphaCandidates(alpha) == Uniq(<<Clip01(alpha), 200, 400, 600, 800>>)

BetaCandidates(beta) == Uniq(<<Clip01(beta), 100, 200, 300, 400>>)

\* options.phi of a caller that sets none; any falsy value selects the
\* default candidates
NoPhi == 0

\* phiCandidates: the phi of the options alone, or the four defaults
PhiCandidatesOf(options) ==
  IF options.phi = NoPhi THEN PhiCandidates ELSE <<options.phi>>

\* the k-th candidate of the three nested loops, smoothed and scored
Candidate(values, as, bs, phis, k) ==
  LET i == (k - 1) \div (Len(bs) * Len(phis))
      j == ((k - 1) \div Len(phis)) % Len(bs)
      q == (k - 1) % Len(phis)
  IN  CHOOSE c \in {[l |-> r.l, t |-> r.t, sse |-> r.sse, a |-> as[i + 1],
                      b |-> bs[j + 1], phi |-> phis[q + 1], k |-> k] :
                     r \in {SmoothAndScore(values, as[i + 1], bs[j + 1], phis[q + 1])}} : TRUE

\* the candidate the loops end with: the one they visit first among those of
\* the least squared error (a later one replaces best only when its error is
\* strictly below)
Least(scored) ==
  CHOOSE c \in scored : \A d \in scored : c.sse < d.sse \/ (c.sse = d.sse /\ c.k <= d.k)

\* a search that keeps the last candidate it scores
GridSearchLast(values, alpha, beta, phis) ==
  LET as == AlphaCandidates(alpha)
      bs == BetaCandidates(beta)
      r == SmoothAndScore(values, as[Len(as)], bs[Len(bs)], phis[Len(phis)])
  IN  [l |-> r.l, t |-> r.t, sse |-> r.sse, a |-> as[Len(as)], b |-> bs[Len(bs)],
       phi |-> phis[Len(phis)], scored |-> Len(as) * Len(bs) * Len(phis)]

\* the grid search: the first candidate with the least squared error, and
\* the number of candidates scored
GridSearch(values, alpha, beta, phis) ==
  LET as == AlphaCandidates(alpha)
      bs == BetaCandidates(beta)
      n == Len(as) * Len(bs) * Len(phis)
  IN  CHOOSE best \in {[l |-> c.l, t |-> c.t, sse |-> c.sse, a |-> c.a, b |-> c.b,
                         phi |-> c.phi, scored |-> n] :
                        c \in {Least(scored) :
                                 scored \in {{Candidate(values, as, bs, phis, k) :
                                                k \in 1..n}}}} : TRUE

\* series length from which holtForecast searches the grid
OptimizeFrom == 6

\* the choice of best: the grid search when enableOptimize, else one pass
\* with the clipped alpha and beta and the last phi candidate
SelectBest(data, alpha, beta, options) ==
  LET phis == PhiCandidatesOf(options)
  IN  IF options.optimize /\ Len(data) >= OptimizeFrom
        THEN GridSearch(data, alpha, beta, phis)
        ELSE LET phi == phis[Len(phis)]
                 r == SmoothAndScore(data, Clip01(alpha), Clip01(beta), phi)
             IN  [l |-> r.l, t |-> r.t, sse |-> r.sse,
                  a |-> Clip01(alpha), b |-> Clip01(beta), phi |-> phi, scored |-> 1]

\* max is NoCapacity when the caller has none
NoCapacity == 0 - 1

\* lines 75-77: the forecast h steps ahead of best, rounded and clamped to
\* [0, options.max]
ForecastOf(best, h, options) ==
  LET raw == RoundFx(HStepForecast(best.l, best.t, best.phi, Max(1, h)))
  IN  Max(0, IF options.max = NoCapacity THEN raw ELSE Min(options.max, raw))

\* holtForecast(series, h, alpha, beta, options) of the finite numbers data,
\* with options {max, phi, optimize}
HoltForecastWith(data, h, alpha, beta, options) ==
  IF Len(data) = 0 THEN 0
  ELSE IF Len(data) < 3 THEN Max(0, RoundFx(data[Len(data)]))
  ELSE CHOOSE f \in {ForecastOf(best, h, options) :
                       best \in {SelectBest(data, alpha, beta, options)}} : TRUE

\* holtForecast(series, h, alpha, beta, {max}), as the predictor calls it
HoltForecast(series, h, alpha, beta, max) ==
  HoltForecastWith(Data(series), h, alpha, beta,
                   [max |-> max, phi |-> NoPhi, optimize |-> TRUE])

----------------------------------------------------------------------------
(* predictiveAnalysis: preprocess.js, the log transform *)

\* Math.log1p(c) for the counts 0..120, in thousandths
Log1pTable ==
  <<
     0, 693, 1099, 1386, 1609, 1792, 1946, 2079, 2197, 2303, 2398, 2485,
     2565, 2639, 2708, 2773, 2833, 2890, 2944, 2996, 3045, 3091, 3135, 3178,
     3219, 3258, 3296, 3332, 3367, 3401, 3434, 3466, 3497, 3526, 3555, 3584,
     3611, 3638, 3664, 3689, 3714, 3738, 3761, 3784, 3807, 3829, 3850, 3871,
     3892, 3912, 3932, 3951, 3970, 3989, 4007, 4025, 4043, 4060, 4078, 4094,
     4111, 4127, 4143, 4159, 4174, 4190, 4205, 4220, 4234, 4248, 4263, 4277,
     4290, 4304, 4317, 4331, 4344, 4357, 4369, 4382, 4394, 4407, 4419, 4431,
     4443, 4454, 4466, 4477, 4489, 4500, 4511, 4522, 4533, 4543, 4554, 4564,
     4575, 4585, 4595, 4605, 4615, 4625, 4635, 4644, 4654, 4663, 4673, 4682,
     4691, 4700, 4710, 4718, 4727, 4736, 4745, 4754, 4762, 4771, 4779, 4787,
     4796
  >>

\* transformLog1p(series): log1p(max(0, x)) of every count
TransformLog1p(series) ==
  [i \in 1..Len(series) |-> Log1pTable[Max(0, series[i]) + 1]]

\* Math.round(Math.expm1(k)) for the whole numbers 0..21
Expm1Table ==
  <<
     0, 2, 6, 19, 54, 147, 402, 1096, 2980, 8102, 22025, 59873, 162754,
     442412, 1202603, 3269016, 8886110, 24154952, 65659968, 178482300,
     485165194, 1318815733
  >>

\* Math.round(inverseLog1p(k)) of a whole number k; past the table the value
\* is above every capacity, and the last entry stands for it
InverseLog1pRounded(k) == Expm1Table[Min(k, Len(Expm1Table) - 1) + 1]

----------------------------------------------------------------------------
(* predictiveAnalysis: buildings.js, config.js *)

\* rows the crowds table takes in one behaviour
MaxRows == 3

\* zones the external API reports
PollZones == {"B1", "B7"}

\* CAPACITY of the catalog, for those zones
CAPACITY == [z \in PollZones |-> IF z = "B1" THEN 120 ELSE 50]

\* counts the external API reports
PollCounts == {20, 85}

\* PREDICTION_INTERVALS as the deployment of the model sets it
PREDICTION_INTERVALS == <<15, 120>>

\* ALPHA and BETA of config.js, per mille
ALPHA == 600

BETA == 300

\* the loop of startPoller / startPredictor right after the call of its tick
Loop(pc) == [pc |-> pc, todo |-> <<>>, rows |-> <<>>, log |-> "none"]

\* a loop() without its catch and finally: a tick that throws sets no timer
SleepUnlessError(log) ==
  [pc |-> IF log = "error" THEN "failed" ELSE "sleeping",
   todo |-> <<>>, rows |-> <<>>, log |-> log]

\* the try / catch / finally of loop(): the tick is logged as done or as an
\* error, and the timer is set
Sleep(log) == [pc |-> "sleeping", todo |-> <<>>, rows |-> <<>>, log |-> log]

\* server.js start(): both loops run their first tick
InitPredictor ==
  /\ crowds = <<>>
  /\ predictions = EmptyMap
  /\ poller = Loop("fetching")
  /\ predictor = Loop("listing")
  /\ stopped = {}

----------------------------------------------------------------------------
(* predictiveAnalysis: poller.js *)

\* what the external API can answer with an array: up to one row per zone
PollAnswers ==
  {<<>>}
    \cup {<<[building_id |-> z, count |-> c]>> : z \in PollZones, c \in PollCounts}
    \cup {<<[building_id |-> "B1", count |-> c], [building_id |-> "B7", count |-> d]>> :
            c \in PollCounts, d \in PollCounts}

\* the timer of the poller fires: loop() calls tickOnce, which waits for fetch
PollerTimerFires ==
  /\ svc \in {"predictor", "jobs"}
  /\ poller.pc = "sleeping"
  /\ poller' = [poller EXCEPT !.pc = "fetching"]
  /\ UNCHANGED <<svc, now, engineVars, arimaVars, crowds, predictions, predictor, calcVars, stopped>>

\* fetch rejects, or answers with a status that is not ok: tickOnce throws
FetchRejected ==
  /\ svc \in {"predictor", "jobs"}
  /\ poller.pc = "fetching"
  /\ poller' = Sleep("error")
  /\ UNCHANGED <<svc, now, engineVars, arimaVars, crowds, predictions, predictor, calcVars, stopped>>

\* the answer is no array: tickOnce returns
FetchedNoArray ==
  /\ svc \in {"predictor", "jobs"}
  /\ poller.pc = "fetching"
  /\ poller' = Sleep("tick ok")
  /\ UNCHANGED <<svc, now, engineVars, arimaVars, crowds, predictions, predictor, calcVars, stopped>>

\* the answer is an array: tickOnce starts to insert its rows, one by one
Fetched(data) ==
  /\ svc \in {"predictor", "jobs"}
  /\ poller.pc = "fetching"
  /\ data \in PollAnswers
  /\ Len(crowds) + Len(data) <= MaxRows
  /\ poller' = IF data = <<>> THEN Sleep("tick ok")
               ELSE [poller EXCEPT !.pc = "inserting", !.rows = data]
  /\ UNCHANGED <<svc, now, engineVars, arimaVars, crowds, predictions, predictor, calcVars, stopped>>

\* the INSERT INTO crowds the poller waits for is done
CrowdInserted ==
  /\ svc \in {"predictor", "jobs"}
  /\ poller.pc = "inserting"
  /\ crowds' = Append(crowds, Head(poller.rows))
  /\ poller' = IF Tail(poller.rows) = <<>> THEN Sleep("tick ok")
               ELSE [poller EXCEPT !.rows = Tail(poller.rows)]
  /\ UNCHANGED <<svc, now, engineVars, arimaVars, predictions, predictor, calcVars, stopped>>

\* the INSERT INTO crowds the poller waits for fails: tickOnce throws
CrowdInsertFails ==
  /\ svc \in {"predictor", "jobs"}
  /\ poller.pc = "inserting"
  /\ poller' = Sleep("error")
  /\ UNCHANGED <<svc, now, engineVars, arimaVars, crowds, predictions, predictor, calcVars, stopped>>

----------------------------------------------------------------------------
(* predictiveAnalysis: predictor.js *)

\* the counts of the rows of zone id, in ts order
RECURSIVE SeriesOf(_, _)
SeriesOf(rows, id) ==
  IF rows = <<>> THEN <<>>
  ELSE (IF Head(rows).building_id = id THEN <<Head(rows).count>> ELSE <<>>)
         \o SeriesOf(Tail(rows), id)

\* maxCap of computeOnce: the capacity of the catalog, if it has the zone
MaxCap(id) == IF id \in DOMAIN CAPACITY THEN CAPACITY[id] ELSE NoCapacity

\* the seasonal baseline computeOnce would take were SEASONAL_BLEND set: the
\* mean count of the rows of the zone in the time-of-day bin of now (the clock
\* of this service stands, so every row of the zone is in the bin); a
\* fixed-point value
SeasonalValue(rows, id) ==
  LET vals == SeriesOf(rows, id)
      Sum[i \in 0..Len(vals)] == IF i = 0 THEN 0 ELSE Sum[i - 1] + vals[i]
  IN  RoundDiv(Fx(Sum[Len(vals)]), Len(vals))

\* computeOnce without its final capacity clamp: what holtForecast returns
PredictedCountUnclamped(series, id, h) ==
  HoltForecast(series, Max(1, h), ALPHA, BETA, MaxCap(id))

\* the prediction computeOnce inserts for horizon h: holtForecast, then the
\* final capacity clamp (config.js sets none of WINSORIZE, LOG1P_TRANSFORM,
\* SEASONAL_BLEND, so these branches are not taken)
PredictedCount(series, id, h) ==
  LET pred == HoltForecast(series, Max(1, h), ALPHA, BETA, MaxCap(id))
  IN  IF MaxCap(id) # NoCapacity THEN Min(MaxCap(id), Max(0, pred)) ELSE pred

\* the prediction computeOnce inserts for horizon h when LOG1P_TRANSFORM is
\* set: holtForecast of the transformed series, with the capacity as its max,
\* then the inverse of what it returned, rounded and floored at 0, then the
\* final capacity clamp
PredictedCountLog(series, id, h) ==
  LET pred == HoltForecastWith(TransformLog1p(series), Max(1, h), ALPHA, BETA,
                               [max |-> MaxCap(id), phi |-> NoPhi, optimize |-> TRUE])
      inverted == Max(0, InverseLog1pRounded(pred))
  IN  IF MaxCap(id) # NoCapacity THEN Min(MaxCap(id), Max(0, inverted)) ELSE inverted

\* the rows computeOnce inserts for a zone, one per horizon
PredictionRows(series, id) ==
  [i \in 1..Len(PREDICTION_INTERVALS) |->
     [building_id |-> id, horizon_min |-> PREDICTION_INTERVALS[i],
      current_count |-> series[Len(series)],
      predicted_count |-> PredictedCount(series, id, PREDICTION_INTERVALS[i])]]

\* the orders SELECT DISTINCT building_id can list the zones of crowds in
DistinctIds ==
  LET ids == {crowds[i].building_id : i \in 1..Len(crowds)}
  IN  {q \in UNION {[1..n -> ids] : n \in 0..Cardinality(ids)} :
         /\ Len(q) = Cardinality(ids)
         /\ \A i, j \in 1..Len(q) : i # j => q[i] # q[j]}

\* the timer of the predictor fires: loop() calls computeOnce, which waits
\* for the list of the zones
PredictorTimerFires ==
  /\ svc \in {"predictor", "jobs"}
  /\ predictor.pc = "sleeping"
  /\ predictor' = [predictor EXCEPT !.pc = "listing"]
  /\ UNCHANGED <<svc, now, engineVars, arimaVars, crowds, predictions, poller, calcVars, stopped>>

\* computeOnce at the history query of the first zone of todo, or at its end
\* when no zone is left
NextZone(todo) ==
  IF todo = <<>> THEN Sleep("computed")
  ELSE [pc |-> "history", todo |-> todo, rows |-> <<>>, log |-> predictor.log]

\* the list of the zones arrives
ZonesListed(ids) ==
  /\ svc \in {"predictor", "jobs"}
  /\ predictor.pc = "listing"
  /\ ids \in DistinctIds
  /\ predictor' = NextZone(ids)
  /\ UNCHANGED <<svc, now, engineVars, arimaVars, crowds, predictions, poller, calcVars, stopped>>

\* the history of the zone arrives: a zone with fewer than 2 rows is passed
\* over; else the predictions are computed and the first INSERT is sent
HistoryArrives ==
  /\ svc \in {"predictor", "jobs"}
  /\ predictor.pc = "history"
  /\ LET id == Head(predictor.todo)
         series == SeriesOf(crowds, id)
     IN  predictor' = IF Len(series) < 2 THEN NextZone(Tail(predictor.todo))
                      ELSE [predictor EXCEPT !.pc = "inserting",
                                             !.rows = PredictionRows(series, id)]
  /\ UNCHANGED <<svc, now, engineVars, arimaVars, crowds, predictions, poller, calcVars, stopped>>

\* the INSERT INTO predictions computeOnce waits for is done
PredictionInserted ==
  /\ svc \in {"predictor", "jobs"}
  /\ predictor.pc = "inserting"
  /\ LET row == Head(predictor.rows)
     IN  predictions' = MapSet(predictions, <<row.building_id, row.horizon_min>>, row)
  /\ predictor' = IF Tail(predictor.rows) = <<>> THEN NextZone(Tail(predictor.todo))
                  ELSE [predictor EXCEPT !.rows = Tail(predictor.rows)]
  /\ UNCHANGED <<svc, now, engineVars, arimaVars, crowds, poller, calcVars, stopped>>

\* a query computeOnce waits for fails: computeOnce throws
PredictorQueryFails ==
  /\ svc \in {"predictor", "jobs"}
  /\ predictor.pc \in {"listing", "history", "inserting"}
  /\ predictor' = Sleep("error")
  /\ UNCHANGED <<svc, now, engineVars, arimaVars, crowds, predictions, poller, calcVars, stopped>>

\* SIGINT / SIGTERM of server.js: both stop functions, then process.exit;
\* the tables stay
PredictorShutdown ==
  /\ svc = "predictor"
  /\ svc' = "exited"
  /\ poller' = [pc |-> "off", todo |-> <<>>, rows |-> <<>>, log |-> "none"]
  /\ predictor' = [pc |-> "off", todo |-> <<>>, rows |-> <<>>, log |-> "none"]
  /\ stopped' = {"poller", "predictor"}
  /\ UNCHANGED <<now, engineVars, arimaVars, crowds, predictions, calcVars>>

\* the stop function startPoller returned, called with no exit after it:
\* clearTimeout cancels a timer that waits; a tick in flight goes on, and its
\* finally sets the next timer
StopPollerCalled ==
  /\ svc = "jobs"
  /\ "poller" \notin stopped
  /\ stopped' = stopped \cup {"poller"}
  /\ poller' = IF poller.pc = "sleeping"
                 THEN [pc |-> "off", todo |-> <<>>, rows |-> <<>>, log |-> poller.log]
                 ELSE poller
  /\ UNCHANGED <<svc, now, engineVars, arimaVars, crowds, predictions, predictor, calcVars>>

\* the stop function startPredictor returned, called with no exit after it
StopPredictorCalled ==
  /\ svc = "jobs"
  /\ "predictor" \notin stopped
  /\ stopped' = stopped \cup {"predictor"}
  /\ predictor' = IF predictor.pc = "sleeping"
                    THEN [pc |-> "off", todo |-> <<>>, rows |-> <<>>, log |-> predictor.log]
                    ELSE predictor
  /\ UNCHANGED <<svc, now, engineVars, arimaVars, crowds, predictions, poller, calcVars>>

NextPredictor ==
  \/ PollerTimerFires
  \/ FetchRejected
  \/ FetchedNoArray
  \/ \E data \in PollAnswers : Fetched(data)
  \/ CrowdInserted
  \/ CrowdInsertFails
  \/ PredictorTimerFires
  \/ \E ids \in DistinctIds : ZonesListed(ids)
  \/ HistoryArrives
  \/ PredictionInserted
  \/ PredictorQueryFails
  \/ PredictorShutdown

----------------------------------------------------------------------------
(* predictive-analysis-backend: HoltLinearModel, PredictionGenerator *)

\* the integer square root
RECURSIVE SqrtFrom(_, _, _)
SqrtFrom(x, lo, hi) ==
  IF lo >= hi THEN lo
  ELSE LET mid == (lo + hi + 1) \div 2
       IN  IF mid * mid <= x THEN SqrtFrom(x, mid, hi) ELSE SqrtFrom(x, lo, mid - 1)

Sqrt(x) == SqrtFrom(x, 0, Min(x, 46340))

\* DataPreprocessor.clean: a null value becomes 0 (null is Null here)
Null == 0 - 1

\* an entry that is undefined; undefined == null holds too
Undefined == 0 - 2

Clean(values) ==
  [i \in 1..Len(values) |-> IF values[i] \in {Null, Undefined} THEN 0 ELSE values[i]]

\* one pass of the loop of fit over value y; the squared residuals are
\* summed in units of 0.01
FitStep(st, y, alpha, beta) ==
  LET yhat == st.L + st.T
      e == RoundDiv(Fx(y) - yhat, 100)
      L == MulPm(alpha, Fx(y)) + MulPm(1000 - alpha, yhat)
      T == MulPm(beta, L - st.L) + MulPm(1000 - beta, st.T)
  IN  [L |-> L, T |-> T, sse |-> st.sse + e * e]

RECURSIVE FitFrom(_, _, _, _)
FitFrom(st, rest, alpha, beta) ==
  IF rest = <<>> THEN st
  ELSE FitFrom(FitStep(st, Head(rest), alpha, beta), Tail(rest), alpha, beta)

\* HoltLinearModel.fit(values, alpha, beta); rmse is in units of 0.01 and 1
\* when the residuals are all 0
Fit(values, alpha, beta) ==
  IF Len(values) < 2
    THEN [level |-> IF values = <<>> THEN 0 ELSE Fx(values[Len(values)]),
          trend |-> 0, rmse |-> 100]
    ELSE LET st == FitFrom([L |-> Fx(values[1]), T |-> Fx(values[2] - values[1]), sse |-> 0],
                           Tail(values), alpha, beta)
             rmse == Sqrt(st.sse \div (Len(values) - 1))
         IN  [level |-> st.L, trend |-> st.T, rmse |-> IF rmse = 0 THEN 100 ELSE rmse]

\* ModelTrainer.train: fit with alpha 0.4 and beta 0.2
Train(values) == Fit(values, 400, 200)

\* predict(horizon): the point forecast and the interval of 1.96 standard
\* errors around it
Predict(model, horizon) ==
  LET pred == model.level + horizon * model.trend
      se == RoundDiv(Sqrt(Max(1, horizon) * Scale * Scale) * model.rmse * 10, Scale)
      half == MulPm(1960, se)
  IN  [pred |-> pred, lower |-> pred - half, upper |-> pred + half]

\* PredictionGenerator.generate for one horizon: pred and lower are clamped
\* to be non-negative
Generate(model, horizon) ==
  LET p == Predict(model, horizon)
  IN  [pred |-> Max(0, p.pred), lower |-> Max(0, p.lower), upper |-> p.upper]

----------------------------------------------------------------------------
(* predictive-analysis-backend: the predictor service of ARIMAEngine.js *)

\* values from which cycle() runs the model
MinValues == 10

\* building_catalog, as fetchBuildings lists it
Catalog == <<[building_id |-> 1, capacity |-> 120], [building_id |-> 5, capacity |-> 80]>>

\* cfg.predictionIntervals as the deployment of the model sets it
PredictionIntervals == <<15, 120>>

\* what fetchHistory can answer
Histories ==
  {<<95>>, <<10, 20, 30, 40, 50, 60, 70, 80, 90, 100>>}

\* writePredictions for one interval: the count it inserts; raw is NotFinite
\* when predictions has no number for the interval
NotFinite == 0 - 1

ClampedCount(raw, latestObserved, capacity) ==
  LET count == IF raw = NotFinite THEN latestObserved ELSE RoundFx(raw)
  IN  IF capacity # 0 THEN Max(0, Min(capacity, count)) ELSE Max(0, count)

\* the rows cycle() has writePredictions insert for building b with history
\* values: below MinValues the last observed count, else the forecasts
ForecastRows(b, values) ==
  LET last == IF values = <<>> THEN 0 ELSE values[Len(values)]
      model == Train(Clean(values))
  IN  [i \in 1..Len(PredictionIntervals) |->
         [building_id |-> b.building_id, interval_minutes |-> PredictionIntervals[i],
          predicted_count |->
            ClampedCount(IF Len(values) < MinValues THEN NotFinite
                         ELSE Generate(model, PredictionIntervals[i]).pred,
                         last, b.capacity),
          real_time_count |-> last]]

\* a cycle() that waits for fetchBuildings
NewRun(first) == [first |-> first, pc |-> "buildings", todo |-> <<>>, rows |-> <<>>]

\* app.js has called startPredictor, which is in its first cycle()
InitArima ==
  /\ forecasts = EmptyMap
  /\ runs = <<NewRun(TRUE)>>
  /\ interval = FALSE

\* runs with run r in place of the i-th
PutRun(i, r) == [runs EXCEPT ![i] = r]

\* a cycle() returns: after the first one startPredictor calls setInterval
RunReturns(i) ==
  /\ runs' = RemoveAt(runs, i)
  /\ interval' = (interval \/ runs[i].first)

\* cycle() at the history query of the first building of todo, or at its end
RunNextBuilding(i, todo) ==
  IF todo = <<>> THEN RunReturns(i)
  ELSE /\ runs' = PutRun(i, [runs[i] EXCEPT !.pc = "history", !.todo = todo, !.rows = <<>>])
       /\ UNCHANGED interval

\* the interval fires: its callback calls cycle()
IntervalFires ==
  /\ svc = "arima"
  /\ interval
  /\ Len(runs) < MaxCycles
  /\ runs' = Append(runs, NewRun(FALSE))
  /\ UNCHANGED <<svc, now, engineVars, predictorVars, forecasts, interval, calcVars>>

\* fetchBuildings answers
BuildingsFetched(i) ==
  /\ svc = "arima"
  /\ i \in 1..Len(runs) /\ runs[i].pc = "buildings"
  /\ RunNextBuilding(i, Catalog)
  /\ UNCHANGED <<svc, now, engineVars, predictorVars, forecasts, calcVars>>

\* fetchHistory answers: the rows of the building are computed and
\* writePredictions sends the DELETE of the first interval
HistoryFetched(i, values) ==
  /\ svc = "arima"
  /\ i \in 1..Len(runs) /\ runs[i].pc = "history"
  /\ values \in Histories
  /\ runs' = PutRun(i, [runs[i] EXCEPT !.pc = "deleting",
                                       !.rows = ForecastRows(Head(runs[i].todo), values)])
  /\ UNCHANGED <<svc, now, engineVars, predictorVars, forecasts, interval, calcVars>>

\* the DELETE of writePredictions is done, the INSERT is sent
RowDeleted(i) ==
  /\ svc = "arima"
  /\ i \in 1..Len(runs) /\ runs[i].pc = "deleting"
  /\ LET row == Head(runs[i].rows)
         key == <<row.building_id, row.interval_minutes>>
     IN  forecasts' = [k \in DOMAIN forecasts \ {key} |-> forecasts[k]]
  /\ runs' = PutRun(i, [runs[i] EXCEPT !.pc = "inserting"])
  /\ UNCHANGED <<svc, now, engineVars, predictorVars, interval, calcVars>>

\* the INSERT of writePredictions is done: the next interval, or the next
\* building, or the end of the cycle
RowInserted(i) ==
  /\ svc = "arima"
  /\ i \in 1..Len(runs) /\ runs[i].pc = "inserting"
  /\ LET row == Head(runs[i].rows)
     IN  forecasts' = MapSet(forecasts, <<row.building_id, row.interval_minutes>>, row)
  /\ IF Tail(runs[i].rows) # <<>>
       THEN /\ runs' = PutRun(i, [runs[i] EXCEPT !.pc = "deleting", !.rows = Tail(@)])
            /\ UNCHANGED interval
       ELSE RunNextBuilding(i, Tail(runs[i].todo))
  /\ UNCHANGED <<svc, now, engineVars, predictorVars, calcVars>>

\* a query cycle() waits for fails: cycle() throws. The callback of the
\* interval logs it; from the first cycle it ends startPredictor before
\* setInterval is reached
RunQueryFails(i) ==
  /\ svc = "arima"
  /\ i \in 1..Len(runs)
  /\ runs' = RemoveAt(runs, i)
  /\ UNCHANGED <<svc, now, engineVars, predictorVars, forecasts, interval, calcVars>>

NextArima ==
  \/ IntervalFires
  \/ \E i \in 1..Len(runs) : BuildingsFetched(i)
  \/ \E i \in 1..Len(runs), values \in Histories : HistoryFetched(i, values)
  \/ \E i \in 1..Len(runs) : RowDeleted(i)
  \/ \E i \in 1..Len(runs) : RowInserted(i)
  \/ \E i \in 1..Len(runs) : RunQueryFails(i)

----------------------------------------------------------------------------
(* The services together *)

\* the variables of the services a behaviour is not about
EngineIdle ==
  /\ mockMode = FALSE
  /\ modelStates = EmptyMap
  /\ models = EmptyMap
  /\ buildingConfigs = EmptyMap
  /\ buildings = <<>>
  /\ timePatterns = {}
  /\ pendingSaves = {}
  /\ requests = <<>>
  /\ cycles = <<>>
  /\ isRunning = FALSE
  /\ cronJob = FALSE
  /\ predictionCache = <<>>
  /\ lastPredictionTime = NoTime
  /\ errors = <<>>
  /\ response = [op |-> "none"]

PredictorIdle ==
  /\ crowds = <<>>
  /\ predictions = EmptyMap
  /\ poller = [pc |-> "off", todo |-> <<>>, rows |-> <<>>, log |-> "none"]
  /\ predictor = [pc |-> "off", todo |-> <<>>, rows |-> <<>>, log |-> "none"]
  /\ stopped = {}

ArimaIdle ==
  /\ forecasts = EmptyMap
  /\ runs = <<>>
  /\ interval = FALSE

\* no function has been called on its own
CalcIdle ==
  /\ args = [fn |-> "none"]
  /\ result = [fn |-> "none"]

\* the predictiveAnalysis service alone
PredictorInit ==
  now = 0 /\ svc = "predictor" /\ InitPredictor /\ EngineIdle /\ ArimaIdle /\ CalcIdle

PredictorSpec == PredictorInit /\ [][NextPredictor]_vars

\* startPoller and startPredictor called by a caller that keeps the stop
\* functions and calls them without leaving the process
JobsInit ==
  now = 0 /\ svc = "jobs" /\ InitPredictor /\ EngineIdle /\ ArimaIdle /\ CalcIdle

NextJobs ==
  \/ PollerTimerFires
  \/ FetchRejected
  \/ FetchedNoArray
  \/ \E data \in PollAnswers : Fetched(data)
  \/ CrowdInserted
  \/ CrowdInsertFails
  \/ PredictorTimerFires
  \/ \E ids \in DistinctIds : ZonesListed(ids)
  \/ HistoryArrives
  \/ PredictionInserted
  \/ PredictorQueryFails
  \/ StopPollerCalled
  \/ StopPredictorCalled

JobsSpec == JobsInit /\ [][NextJobs]_vars

\* the analysis-backend service alone
EngineInit ==
  now = 0 /\ svc = "engine" /\ InitEngine /\ PredictorIdle /\ ArimaIdle /\ CalcIdle

EngineNext == Tick \/ NextEngine

EngineSpec == EngineInit /\ [][EngineNext]_vars

\* the predictive-analysis-backend service alone
ArimaInit ==
  now = 0 /\ svc = "arima" /\ InitArima /\ EngineIdle /\ PredictorIdle /\ CalcIdle

ArimaSpec == ArimaInit /\ [][NextArima]_vars

----------------------------------------------------------------------------
(* PredictionEngine called directly: updatePredictionCache and clearCache *)

\* periods of five minutes the clock of these calls runs through
MaxBuckets == 12

\* a PredictionEngine as its constructor leaves it
CacheInit ==
  now = 0 /\ svc = "cache" /\ EngineIdle /\ PredictorIdle /\ ArimaIdle /\ CalcIdle

\* the clock advances between two calls
CacheTick ==
  /\ svc = "cache"
  /\ now < MaxBuckets * ClockStep
  /\ now' = now + ClockStep
  /\ UNCHANGED <<svc, engineVars, predictorVars, arimaVars, calcVars>>

\* updatePredictionCache(predictions)
UpdateCacheCalled ==
  /\ svc = "cache"
  /\ predictionCache' = UpdatePredictionCache(predictionCache, EmptyMap, now)
  /\ UNCHANGED <<svc, now, models, buildingConfigs, buildings, timePatterns, mockMode,
                 modelStates, pendingSaves, requests, cycles, isRunning, cronJob,
                 lastPredictionTime, errors, response,
                 predictorVars, arimaVars, calcVars>>

\* clearCache()
ClearCacheCalled ==
  /\ svc = "cache"
  /\ predictionCache # <<>>
  /\ predictionCache' = <<>>
  /\ UNCHANGED <<svc, now, models, buildingConfigs, buildings, timePatterns, mockMode,
                 modelStates, pendingSaves, requests, cycles, isRunning, cronJob,
                 lastPredictionTime, errors, response,
                 predictorVars, arimaVars, calcVars>>

NextCache ==
  \/ CacheTick
  \/ UpdateCacheCalled
  \/ ClearCacheCalled

CacheSpec == CacheInit /\ [][NextCache]_vars

----------------------------------------------------------------------------
(* ModelManager called directly: updateModel and initializeBuilding *)

\* the capacities a corrected configuration of a building carries
CorrectedCapacities == {500}

\* the counts updateModel is called with
ManagerCounts == {Num(40), Num(300)}

\* the engine after initialize(BUILDINGS), not started
ManagerInit ==
  /\ now = 0 /\ svc = "manager"
  /\ InitEngine /\ mockMode = FALSE
  /\ PredictorIdle /\ ArimaIdle /\ CalcIdle

\* updateModel(z, count) for a zone that has a model
ManagerUpdate(z, count) ==
  /\ svc = "manager"
  /\ z \in DOMAIN models
  /\ Processed < MaxPoints
  /\ LET r == UpdateStored(models, pendingSaves, z, count, now)
     IN  models' = r.models /\ pendingSaves' = r.saves
  /\ UNCHANGED <<svc, now, buildingConfigs, buildings, timePatterns, mockMode,
                 modelStates, requests, cycles, isRunning, cronJob, predictionCache,
                 lastPredictionTime, errors, response,
                 predictorVars, arimaVars, calcVars>>

\* initializeBuilding(building) for a zone that has a model, with a capacity
\* its configuration does not have yet, up to its await: the configuration is
\* stored, loadModelState is on its way
InitializeBuildingCalled(z, capacity) ==
  /\ svc = "manager"
  /\ z \in DOMAIN models
  /\ requests = <<>>
  /\ buildingConfigs[z].capacity # capacity
  /\ LET building == [buildingConfigs[z] EXCEPT !.capacity = capacity]
     IN  /\ buildingConfigs' = MapSet(buildingConfigs, z, building)
         /\ requests' = <<[via |-> "initializeBuilding", zone |-> z, building |-> building]>>
  /\ UNCHANGED <<svc, now, models, buildings, timePatterns, mockMode,
                 modelStates, pendingSaves, cycles, isRunning, cronJob, predictionCache,
                 lastPredictionTime, errors, response,
                 predictorVars, arimaVars, calcVars>>

\* initializeBuilding after its await: the model it created, with the saved
\* row restored if there is one, takes the place of the model of the zone
InitializeBuildingReturns(i, outcome) ==
  /\ svc = "manager"
  /\ i \in 1..Len(requests)
  /\ outcome \in LoadOutcomes(modelStates, requests[i].zone)
  /\ models' = MapSet(models, requests[i].zone,
                      RestoreModel(CreateModel(requests[i].building), outcome))
  /\ requests' = RemoveAt(requests, i)
  /\ UNCHANGED <<svc, now, buildingConfigs, buildings, timePatterns, mockMode,
                 modelStates, pendingSaves, cycles, isRunning, cronJob, predictionCache,
                 lastPredictionTime, errors, response,
                 predictorVars, arimaVars, calcVars>>

NextManager ==
  \/ \E z \in Zones, count \in ManagerCounts : ManagerUpdate(z, count)
  \/ \E z \in Zones, capacity \in CorrectedCapacities : InitializeBuildingCalled(z, capacity)
  \/ \E i \in 1..Len(requests), outcome \in AnyLoadOutcome : InitializeBuildingReturns(i, outcome)
  \/ \E s \in pendingSaves : SaveCompletes(s)
  \/ \E s \in pendingSaves : SaveFails(s)

ManagerSpec == ManagerInit /\ [][NextManager]_vars

----------------------------------------------------------------------------
(* predictiveAnalysis: model/preprocess.js *)

\* the numbers of preprocess.js are kept in units of 1 / WScale, so that a
\* percentile of integers, and a percentile of such percentiles, is exact
WScale == 100 * 100

\* [...values].sort((a, b) => a - b)
RECURSIVE SortAscending(_)
SortAscending(v) ==
  IF v = <<>> THEN <<>>
  ELSE LET m == CHOOSE i \in 1..Len(v) : \A j \in 1..Len(v) : v[i] <= v[j]
       IN  <<v[m]>> \o SortAscending(RemoveAt(v, m))

\* percentile(values, p): linear interpolation between the two ranks around
\* (p / 100) * (n - 1)
Percentile(values, p) ==
  IF values = <<>> THEN 0
  ELSE LET v == SortAscending(values)
           rank == p * (Len(v) - 1)
           lo == rank \div 100
           w == rank % 100
       IN  IF w = 0 THEN v[lo + 1]
           ELSE (v[lo + 1] * (100 - w) + v[lo + 2] * w) \div 100

\* series.map(Number).filter(Number.isFinite): Number(null) is 0,
\* Number(undefined) is NaN and is filtered out
ToFiniteNumbers(series) ==
  LET kept == SelectSeq(series, LAMBDA x : x # Undefined)
  IN  [i \in 1..Len(kept) |-> IF kept[i] = Null THEN 0 ELSE kept[i] * WScale]

\* winsorize from its second line on, over finite numbers
ClipToPercentiles(data, lower, upper) ==
  IF data = <<>> THEN <<>>
  ELSE LET lo == Percentile(data, lower)
           hi == Percentile(data, upper)
       IN  [i \in 1..Len(data) |-> Min(hi, Max(lo, data[i]))]

\* winsorize(series, lower, upper)
Winsorize(series, lower, upper) == ClipToPercentiles(ToFiniteNumbers(series), lower, upper)

----------------------------------------------------------------------------
(* the forecasting functions and the preprocessors, called on their own *)

\* longest series the forecasts and the preprocessors are called with
MaxLen == 3

\* longest series smoothAndScore is called with
MaxSmoothLen == 7

\* all sequences over S with lengths from..to
SeqsOf(S, from, to) == UNION {[1..n -> S] : n \in from..to}

ForecastValues == {0 - 5, 0, 7, 40}

ForecastHorizons == {1, 15, 120}

HStepHorizons == {1, 15, 60}

RawValues == {Null, Undefined, 0, 10, 100}

PercentileBounds == {<<5, 95>>, <<25, 75>>, <<0, 100>>}

SmoothValues == {5, 20}

\* the alpha and beta, and the options, holtForecast is called with
HoltParameters == {<<ALPHA, BETA>>, <<350, 150>>}

HoltOptions == {[max |-> NoCapacity, phi |-> p, optimize |-> o] : p \in {NoPhi, 900}, o \in BOOLEAN}

\* the calls a behaviour can make: the function and its arguments
CalcArgs ==
  {[fn |-> f, series |-> q, h |-> h] :
     f \in {"holtForecast", "fit", "HoltsLinearModel"},
     q \in SeqsOf(ForecastValues, 1, MaxLen), h \in ForecastHorizons}
  \cup {[fn |-> "winsorize", series |-> q, lower |-> b[1], upper |-> b[2]] :
          q \in SeqsOf(RawValues, 0, MaxLen), b \in PercentileBounds}
  \cup {[fn |-> "clean", series |-> q] : q \in SeqsOf(RawValues, 0, MaxLen)}
  \cup {[fn |-> "smoothAndScore", series |-> q, a |-> a, b |-> BETA, phi |-> phi] :
          q \in SeqsOf(SmoothValues, 3, MaxSmoothLen), a \in {200, ALPHA},
          phi \in {900, 1000}}
  \cup {[fn |-> "holtForecast options", series |-> q, h |-> h, alpha |-> ab[1],
          beta |-> ab[2], options |-> o] :
          q \in SeqsOf(SmoothValues, 3, OptimizeFrom), h \in {1, 15},
          ab \in HoltParameters, o \in HoltOptions}
  \cup {[fn |-> "computeOnce log", series |-> q, id |-> z, h |-> PREDICTION_INTERVALS[k]] :
          q \in SeqsOf(PollCounts, 2, MaxLen), z \in PollZones,
          k \in 1..Len(PREDICTION_INTERVALS)}
  \cup {[fn |-> "hStepForecast", l |-> Fx(l), t |-> t, phi |-> PhiCandidates[k], h |-> h] :
          l \in {0, 40}, t \in {0 - 2000, 0, 500, 3000},
          k \in 1..Len(PhiCandidates), h \in HStepHorizons}

CalcInit ==
  /\ now = 0 /\ svc = "calc"
  /\ args \in CalcArgs
  /\ result = [fn |-> "none"]
  /\ EngineIdle /\ PredictorIdle /\ ArimaIdle

\* the frame of a call: nothing but the result changes
Returns(fn, value) ==
  /\ svc = "calc"
  /\ args.fn = fn
  /\ result.fn = "none"
  /\ result' = [fn |-> fn, value |-> value]
  /\ UNCHANGED <<svc, now, engineVars, predictorVars, arimaVars, args>>

\* holtForecast(series, h, ALPHA, BETA)
HoltForecastCalled ==
  Returns("holtForecast", HoltForecast(args.series, args.h, ALPHA, BETA, NoCapacity))

\* holtForecast(series, h, alpha, beta, options): the forecast, and the best
\* it was computed from
HoltForecastWithCalled ==
  Returns("holtForecast options",
          [best |-> SelectBest(Data(args.series), args.alpha, args.beta, args.options),
           forecast |-> HoltForecastWith(Data(args.series), args.h, args.alpha, args.beta,
                                         args.options)])

\* the prediction computeOnce publishes for the rows of a zone and a horizon
\* when LOG1P_TRANSFORM is set (config.js defines no such flag, so the flag
\* is an input of this call)
ComputeOnceLogCalled ==
  Returns("computeOnce log", PredictedCountLog(args.series, args.id, args.h))

\* PredictionGenerator.generate(ModelTrainer.train(values), [h]): the point
\* forecast and its interval
FitCalled == Returns("fit", Generate(Train(args.series), args.h))

\* update(x) of a new HoltsLinearModel for every x of the series, until one
\* throws
RECURSIVE UpdateAll(_, _)
UpdateAll(m, series) ==
  IF series = <<>> THEN [threw |-> FALSE, model |-> m]
  ELSE IF InvalidObservation(Num(Head(series))) THEN [threw |-> TRUE, model |-> m]
  ELSE UpdateAll(Update(m, Head(series), now), Tail(series))

\* a new HoltsLinearModel fed the series, then forecast(h)
ModelForecastCalled ==
  LET fed == UpdateAll(CreateModel(BUILDINGS[1]), args.series)
  IN  Returns("HoltsLinearModel",
              [threw |-> fed.threw, level |-> fed.model.level, trend |-> fed.model.trend,
               forecast |-> Forecast(fed.model, args.h)])

\* winsorize(series, lower, upper)
WinsorizeCalled ==
  Returns("winsorize", Winsorize(args.series, args.lower, args.upper))

\* winsorize(w, lower, upper) of the series w a call of winsorize returned
WinsorizeAgain ==
  /\ svc = "calc"
  /\ result.fn = "winsorize"
  /\ result' = [fn |-> "winsorize twice", once |-> result.value,
                value |-> ClipToPercentiles(result.value, args.lower, args.upper)]
  /\ UNCHANGED <<svc, now, engineVars, predictorVars, arimaVars, args>>

\* DataPreprocessor.clean({values})
CleanCalled == Returns("clean", Clean(args.series))

\* smoothAndScore(values, a, b, phi)
SmoothAndScoreCalled ==
  Returns("smoothAndScore", SmoothAndScore(Data(args.series), args.a, args.b, args.phi))

\* hStepForecast(l, t, phi, horizon)
HStepForecastCalled ==
  Returns("hStepForecast", HStepForecast(args.l, args.t, args.phi, args.h))

NextCalc ==
  \/ HoltForecastCalled
  \/ HoltForecastWithCalled
  \/ ComputeOnceLogCalled
  \/ FitCalled
  \/ ModelForecastCalled
  \/ WinsorizeCalled
  \/ WinsorizeAgain
  \/ CleanCalled
  \/ SmoothAndScoreCalled
  \/ HStepForecastCalled

CalcSpec == CalcInit /\ [][NextCalc]_vars

----------------------------------------------------------------------------
(* Every behaviour: one of the services, or one of the classes and functions
   called directly *)

Init ==
  \/ EngineInit
  \/ PredictorInit
  \/ JobsInit
  \/ ArimaInit
  \/ CacheInit
  \/ ManagerInit
  \/ CalcInit

Next ==
  \/ Tick
  \/ NextEngine
  \/ NextPredictor
  \/ NextJobs
  \/ NextArima
  \/ NextCache
  \/ NextManager
  \/ NextCalc

Spec == Init /\ [][Next]_vars


\* the predictiveAnalysis service alone, its timers firing: a timer that
\* setTimeout has set fires once its delay is over
FairPredictorSpec ==
  /\ PredictorInit
  /\ [][NextPredictor]_vars
  /\ WF_vars(PollerTimerFires)
  /\ WF_vars(PredictorTimerFires)

----------------------------------------------------------------------------
(* Properties *)

\* C1: for every zone whose capacity is known, every prediction a forecast
\* cycle publishes (the entries of the prediction cache, the rows computeOnce
\* and writePredictions insert) and every prediction getPrediction and
\* getMultiHorizonPredictions return is within 0..capacity, for every horizon.
CapacityInvariant ==
  /\ \A z \in DOMAIN models \cap DOMAIN buildingConfigs :
       /\ \A h \in QueryHorizons :
            /\ GetPrediction(models, buildingConfigs, z, h).prediction >= 0
            /\ GetPrediction(models, buildingConfigs, z, h).prediction
                 <= buildingConfigs[z].capacity
       /\ \A h \in EngineHorizons :
            /\ GetMultiHorizonPredictions(models, buildingConfigs, z, EngineHorizons)[h].prediction >= 0
            /\ GetMultiHorizonPredictions(models, buildingConfigs, z, EngineHorizons)[h].prediction
                 <= buildingConfigs[z].capacity
  /\ \A i \in 1..Len(predictionCache) :
       \A z \in DOMAIN predictionCache[i].predictions :
         \A h \in EngineHorizons :
           /\ predictionCache[i].predictions[z][h].prediction >= 0
           /\ predictionCache[i].predictions[z][h].prediction
                <= predictionCache[i].predictions[z][h].capacity
  /\ \A k \in DOMAIN predictions :
       k[1] \in DOMAIN CAPACITY =>
         /\ predictions[k].predicted_count >= 0
         /\ predictions[k].predicted_count <= CAPACITY[k[1]]
  /\ \A i \in 1..Len(predictor.rows) :
       predictor.rows[i].building_id \in DOMAIN CAPACITY =>
         /\ predictor.rows[i].predicted_count >= 0
         /\ predictor.rows[i].predicted_count <= CAPACITY[predictor.rows[i].building_id]
  /\ \A k \in DOMAIN forecasts :
       \A j \in 1..Len(Catalog) :
         Catalog[j].building_id = k[1] =>
           /\ forecasts[k].predicted_count >= 0
           /\ forecasts[k].predicted_count <= Catalog[j].capacity

\* C1 happens: zone B7, capacity 50, last seen with 85 people, has the row of
\* horizon 15 published with exactly 50
CapacityClampPublished ==
  /\ <<"B7", 15>> \in DOMAIN predictions
  /\ predictions[<<"B7", 15>>].current_count = 85
  /\ predictions[<<"B7", 15>>].predicted_count = 50

\* C2: when updateModel has registered a zone that had no model (through
\* POST /data or through updateModels of a cycle), the zone has a model that
\* took the observation in, a zone of no catalog has the fallback
\* configuration and the coefficients that go with it, POST /data answers
\* 200 and not 'model not found', and getPrediction(zone, 15) succeeds.
AutoRegistration ==
  [][/\ \A i \in 1..Len(requests) :
          (svc' = svc /\ requests' = RemoveAt(requests, i)) =>
            LET z == requests[i].zone
            IN  /\ z \in DOMAIN models'
                /\ z \notin IdSet(BUILDINGS) =>
                     /\ buildingConfigs'[z] = FallbackBuilding(z)
                     /\ models'[z].alpha = GetOptimalParameters("academic", FallbackCapacity).alpha
                     /\ models'[z].beta = GetOptimalParameters("academic", FallbackCapacity).beta
                /\ models'[z].isInitialized
                /\ models'[z].dataPointsProcessed >= 1
                /\ models'[z].level = Fx(requests[i].count.val)
                /\ response' = DataResponse(z, 200, ModelStateOf(GetState(models'[z])))
                /\ GetPrediction(models', buildingConfigs', z, 15).ok
     /\ \A i \in 1..Len(cycles) :
          (/\ svc' = svc
           /\ cycles[i].phase = "loading"
           /\ Len(cycles') = Len(cycles)
           /\ cycles'[i] # cycles[i]) =>
            LET z == Head(cycles[i].data).zone
            IN  /\ z \in DOMAIN models'
                /\ models'[z].isInitialized
                /\ models'[z].dataPointsProcessed >= 1
                /\ GetPrediction(models', buildingConfigs', z, 15).ok]_vars

\* C2 happens: POST /data for Z99, a zone of no catalog, has been answered
\* 200 and Z99 has a model with one observation
UnknownZoneRegistered ==
  /\ response.op = "postData"
  /\ response.zone = "Z99"
  /\ response.status = 200
  /\ "Z99" \in DOMAIN models
  /\ models["Z99"].dataPointsProcessed = 1
  /\ buildingConfigs["Z99"].capacity = FallbackCapacity

\* C3: the save of an update neither blocks nor fails it. Every step that
\* changes a model leaves the model advanced by the observation (an update
\* of the model the zone had, or the first update of a model just set) while
\* the write of its state is still in flight; POST /data answers 200 with that
\* state without waiting for the write; and a write that fails leaves the
\* models, the answer and the process as they are.
PersistenceNonBlocking ==
  [][/\ \A z \in DOMAIN models' :
          (svc' = svc /\ (z \notin DOMAIN models \/ models'[z] # models[z])) =>
            LET m == models'[z]
                last == m.history[Len(m.history)]
            IN  /\ SnapshotRow(z, GetState(m)) \in pendingSaves'
                /\ m.dataPointsProcessed >= 1
                /\ m.lastUpdateTime = last.timestamp
                /\ m.level = last.level /\ m.trend = last.trend
                /\ IF z \in DOMAIN models /\ Len(m.history) = Len(models[z].history) + 1
                     THEN m = Update(models[z], last.value, last.timestamp)
                     ELSE m.dataPointsProcessed = 1 /\ m.level = Fx(last.value)
     /\ (response' # response /\ response'.op = "postData" /\ response'.status = 200) =>
          /\ response'.state = ModelStateOf(GetState(models'[response'.zone]))
          /\ SnapshotRow(response'.zone, GetState(models'[response'.zone])) \in pendingSaves'
     /\ \A s \in pendingSaves :
          (/\ pendingSaves' = pendingSaves \ {s}
           /\ modelStates' = modelStates
           /\ isRunning' = isRunning) =>
            /\ svc' = svc
            /\ models' = models
            /\ response' = response]_vars

\* C3 happens: POST /data for B1 was answered 200, the write of the state
\* has failed (nothing is in flight and the table is as it was at the
\* start), and the model holds the observation
SaveFailedUpdateKept ==
  /\ svc = "engine"
  /\ response.op = "postData"
  /\ response.zone = "B1"
  /\ response.status = 200
  /\ pendingSaves = {}
  /\ modelStates = SeedRows
  /\ models["B1"].dataPointsProcessed = 1
  /\ response.state.dataPointsProcessed = 1

\* C4: an observation whose count is negative or not a number is rejected
\* where it comes in and never reaches a model: POST /data answers 400 and
\* changes no model, and a data point of the real API with such a count
\* changes no model either (nothing is fed in its place).
InvalidCountRejected ==
  [][/\ \A z \in Zones, raw \in RawCounts :
          (InvalidObservation(raw) /\ PostData(z, raw)) =>
            /\ response'.status = 400
            /\ models' = models
            /\ pendingSaves' = pendingSaves
     /\ \A i \in 1..Len(cycles), realData \in RealAnswers :
          (/\ realData # <<>>
           /\ InvalidObservation(realData[1].count)
           /\ FetchAnswers(i, realData)) =>
            /\ models' = models
            /\ pendingSaves' = pendingSaves]_vars

\* C5: a failure in the processing of one zone (its history query or the
\* write of its predictions) does not abort the cycle: computeOnce goes on
\* with the zones that are left.
ZoneFailureIsolated ==
  [][(/\ PredictorQueryFails
      /\ predictor.pc \in {"history", "inserting"}
      /\ Tail(predictor.todo) # <<>>) =>
       /\ predictor'.pc = "history"
       /\ predictor'.todo = Tail(predictor.todo)]_vars

\* C6: a zone whose history has fewer than 2 points is not passed over: for
\* every configured horizon the cycle publishes a prediction that equals the
\* last observed count of the zone.
DegradedFallback ==
  [][(HistoryArrives /\ Len(SeriesOf(crowds, Head(predictor.todo))) < 2) =>
       LET series == SeriesOf(crowds, Head(predictor.todo))
       IN  /\ predictor'.pc = "inserting"
           /\ Len(predictor'.rows) = Len(PREDICTION_INTERVALS)
           /\ \A i \in 1..Len(predictor'.rows) :
                /\ predictor'.rows[i].horizon_min = PREDICTION_INTERVALS[i]
                /\ predictor'.rows[i].predicted_count = series[Len(series)]]_vars

\* C7: the cycles of one loop never overlap: at most one runPredictionCycle
\* of the engine and at most one cycle() of the interval predictor is in
\* flight at any time (the loops of startPoller and startPredictor hold one
\* tick by construction).
NoOverlappingCycles ==
  /\ Len(cycles) <= 1
  /\ Len(runs) <= 1

\* C8: a tick that fails does not stop its loop: the error is logged and the
\* timer set, so every tick of the poller and of the predictor that has
\* ended, as done or as an error, is followed by another tick unless the
\* loops have been stopped.
FailingTickRetried ==
  /\ (poller.pc = "sleeping") ~> (poller.pc \in {"fetching", "off"})
  /\ (predictor.pc = "sleeping") ~> (predictor.pc \in {"listing", "off"})
  /\ (poller.log = "error" /\ poller.pc \notin {"fetching", "inserting"})
       ~> (poller.pc \in {"fetching", "off"})
  /\ (predictor.log = "error" /\ predictor.pc \notin {"listing", "history", "inserting"})
       ~> (predictor.pc \in {"listing", "off"})

\* C8 happens: the tick of the poller has thrown, and so has the tick of the
\* predictor, and each loop is in its next tick
TickAfterFailedTick ==
  /\ poller.pc = "fetching" /\ poller.log = "error"
  /\ predictor.pc = "listing" /\ predictor.log = "error"

\* C9: when the fetch of the external data fails, the tick is skipped as a
\* whole: the poller inserts no row, and a cycle of the engine whose fetch
\* has failed updates no model, fires no save and publishes nothing.
FetchFailureSkipsTick ==
  [][/\ FetchRejected => (crowds' = crowds /\ poller'.pc = "sleeping")
     /\ \A i \in 1..Len(cycles) :
          FetchFails(i) =>
            /\ models' = models
            /\ pendingSaves' = pendingSaves
            /\ predictionCache' = predictionCache]_vars

\* C10: getCachedPredictions(maxAgeMinutes) hits exactly when some cached
\* bucket is no older than maxAgeMinutes, and what it returns is no older
\* than maxAgeMinutes and is the freshest of the buckets that are not.
FreshestBucketReturned ==
  \A maxAge \in MaxAges :
    LET r == GetCachedPredictions(predictionCache, maxAge, now)
        fresh == {i \in 1..Len(predictionCache) :
                    now - predictionCache[i].timestamp <= maxAge}
    IN  /\ r.hit <=> fresh # {}
        /\ r.hit =>
             /\ r.age <= maxAge
             /\ \A i \in fresh : predictionCache[i].timestamp <= r.timestamp

\* C11: the prediction cache never holds more than 10 buckets, and a call of
\* updatePredictionCache that goes over the bound evicts exactly the bucket
\* that is oldest, by place in the Map and by timestamp, while the bucket it
\* wrote stays, as the newest one
CacheBoundedFifo ==
  /\ [](Len(predictionCache) <= CacheLimit)
  /\ [][UpdateCacheCalled =>
          LET old == predictionCache
              new == predictionCache'
              written == new[Len(new)]
              gone == {i \in 1..Len(old) :
                         \A j \in 1..Len(new) : new[j].key # old[i].key}
          IN  /\ new # <<>>
              /\ written.key = GenerateCacheKey(now) /\ written.timestamp = now
              /\ \A j \in 1..(Len(new) - 1) : new[j].timestamp < written.timestamp
              /\ gone # {} =>
                    /\ gone = {1}
                    /\ Len(old) = CacheLimit
                    /\ \A i \in 2..Len(old) : old[1].timestamp < old[i].timestamp
                    /\ new = Append(Tail(old), written)
              /\ gone = {} => Len(new) \in {Len(old), Len(old) + 1}]_vars

\* a full cache whose first bucket is no longer the bucket of the first
\* period and whose last bucket is the one of the present period
CacheEvictedOldest ==
  /\ svc = "cache"
  /\ Len(predictionCache) = CacheLimit
  /\ now = MaxBuckets * ClockStep
  /\ \A i \in 1..CacheLimit :
        predictionCache[i].key = now - (CacheLimit - i) * ClockStep

\* C12: the lastUpdateTime of a zone's model never moves backwards: no step
\* applies to a zone an observation whose timestamp is earlier than that of
\* an observation the zone's model has already taken in
UpdateTimeMonotone ==
  [][\A z \in DOMAIN models \cap DOMAIN models' :
       models[z].lastUpdateTime # NoTime =>
         models'[z].lastUpdateTime >= models[z].lastUpdateTime]_vars

\* C13: initializeBuilding for a zone that already has a model, called with a
\* corrected capacity, leaves level, trend and dataPointsProcessed of the
\* zone's model as they were before the call
ReRegistrationKeepsHistory ==
  [][\A i \in 1..Len(requests), outcome \in AnyLoadOutcome :
       InitializeBuildingReturns(i, outcome) =>
         LET z == requests[i].zone
         IN  /\ models'[z].level = models[z].level
             /\ models'[z].trend = models[z].trend
             /\ models'[z].dataPointsProcessed = models[z].dataPointsProcessed]_vars

WinsorizeIdempotent ==
  result.fn = "winsorize twice" => result.value = result.once

\* C16: a preprocessor returns a series as long as its input, in which every
\* entry that was null or undefined is 0 at its own place
PreprocessorKeepsLength ==
  result.fn \in {"clean", "winsorize"} =>
    /\ Len(result.value) = Len(args.series)
    /\ \A i \in 1..Len(args.series) :
          args.series[i] \in {Null, Undefined} => result.value[i] = 0

\* C17: the predictions computeOnce sends for a zone that has a seasonal
\* value s are round(w * s + (1 - w) * f) of the Holt forecast f, with w = 0.3
\* up to a horizon of 60 minutes and w = 0.6 above it (then the capacity clamp)
SeasonalBlendPublished ==
  [][(HistoryArrives /\ predictor'.pc = "inserting") =>
       LET id == Head(predictor.todo)
           series == SeriesOf(crowds, id)
           s == SeasonalValue(crowds, id)
       IN  \A i \in 1..Len(predictor'.rows) :
             LET h == predictor'.rows[i].horizon_min
                 f == HoltForecast(series, Max(1, h), ALPHA, BETA, MaxCap(id))
                 w == IF h <= 60 THEN 300 ELSE 600
                 blend == RoundFx(MulPm(w, s) + MulPm(1000 - w, Fx(f)))
             IN  predictor'.rows[i].predicted_count =
                   IF MaxCap(id) # NoCapacity THEN Min(MaxCap(id), Max(0, blend))
                   ELSE blend]_vars

\* C18: for a series of one or two values, holtForecast and
\* HoltLinearModel.fit with generate return the last value of the series
\* (clamped to be non-negative) at every horizon
LastValueOnly ==
  (result.fn \in {"holtForecast", "fit"} /\ Len(args.series) \in {1, 2}) =>
     LET last == args.series[Len(args.series)]
     IN  IF result.fn = "holtForecast" THEN result.value = Max(0, last)
         ELSE result.value.pred = Fx(Max(0, last))

\* C19: smoothAndScore returns what the reference recursion gives: from
\* level = first value and trend = mean of the first min(5, n - 1)
\* differences, each later value x gives
\* L' = alpha x + (1 - alpha)(L + phi T) and
\* T' = beta (L' - L) + (1 - beta) phi T, and adds (x - (L + phi T))^2, taken
\* from L and T before the update, to the squared error
SmoothingMatchesReference ==
  result.fn = "smoothAndScore" =>
    LET x == args.series
        n == Len(x)
        m == IF n - 1 < 5 THEN n - 1 ELSE 5
        DiffSum[i \in 0..m] == IF i = 0 THEN 0 ELSE DiffSum[i - 1] + (x[i + 1] - x[i])
        Ref[k \in 1..n] ==
          IF k = 1 THEN [L |-> Fx(x[1]), T |-> RoundDiv(Fx(DiffSum[m]), m), E |-> 0]
          ELSE LET p == Ref[k - 1]
                   ahead == p.L + MulPm(args.phi, p.T)
                   L == MulPm(args.a, Fx(x[k])) + MulPm(1000 - args.a, ahead)
                   T == MulPm(args.b, L - p.L) + MulPm(1000 - args.b, MulPm(args.phi, p.T))
                   err == RoundDiv(Fx(x[k]) - ahead, 100)
               IN  [L |-> L, T |-> T, E |-> p.E + err * err]
    IN  /\ result.value.l = Ref[n].L
        /\ result.value.t = Ref[n].T
        /\ result.value.sse = Ref[n].E

\* a damped smoothing pass over seven values that left a squared error
SmoothedSevenValues ==
  /\ result.fn = "smoothAndScore"
  /\ Len(args.series) = MaxSmoothLen
  /\ args.phi < 1000
  /\ args.series[MaxSmoothLen] # args.series[MaxSmoothLen - 1]
  /\ result.value.sse > 0

\* C20: hStepForecast(L, T, phi, h) is L + h T when phi is 1.0, and
\* L + T phi (1 - phi^h) / (1 - phi) when 0 < phi < 1 (phi^h by repeated
\* squaring, in millionths; equal to within 0.003, the rounding of the
\* fixed-point sums);
\* HoltsLinearModel.forecast rounds and clamps the same L + h T
HStepForecastFormula ==
  /\ result.fn = "hStepForecast" =>
        LET One == Scale * Scale
            Times(x, y) == RoundDiv((x \div 1000) * y, 1000) + RoundDiv((x % 1000) * y, One)
            P1 == args.phi * 1000
            P2 == Times(P1, P1)
            P4 == Times(P2, P2)
            P8 == Times(P4, P4)
            P16 == Times(P8, P8)
            P32 == Times(P16, P16)
            Bit(k, P) == IF (args.h \div k) % 2 = 1 THEN P ELSE One
            power == Times(Times(Times(Bit(1, P1), Bit(2, P2)), Times(Bit(4, P4), Bit(8, P8))),
                           Times(Bit(16, P16), Bit(32, P32)))
            sum == RoundDiv(RoundDiv(args.phi * (One - power), 1000 - args.phi), Scale)
            damped == args.l + (sum \div 1000) * args.t + MulPm(sum % 1000, args.t)
            slack == 3
        IN  IF args.phi = 1000 THEN result.value = args.l + args.h * args.t
            ELSE /\ result.value - damped <= slack
                 /\ damped - result.value <= slack
  /\ (result.fn = "HoltsLinearModel" /\ ~result.value.threw) =>
        result.value.forecast =
          Max(0, RoundFx(HStepForecast(result.value.level, result.value.trend, 1000, args.h)))

\* a damped forecast an hour ahead that stays below the undamped one
DampedBelowUndamped ==
  /\ result.fn = "hStepForecast"
  /\ args.phi = 900 /\ args.h = 60 /\ args.t > 0
  /\ result.value < args.l + args.h * args.t
  /\ result.value > args.l

\* C21: every point forecast a forecasting operation returns is a whole
\* number that is not negative: holtForecast, HoltsLinearModel.forecast and
\* PredictionGenerator.generate round the raw forecast and floor it at 0
\* (generate is looked at for series of counts, which are not negative)
PointForecastWholeNumber ==
  /\ result.fn = "holtForecast" => result.value >= 0
  /\ (result.fn = "HoltsLinearModel" /\ ~result.value.threw) => result.value.forecast >= 0
  /\ (result.fn = "fit" /\ \A i \in 1..Len(args.series) : args.series[i] >= 0) =>
       (result.value.pred >= 0 /\ result.value.pred % Scale = 0)

\* C30: the interval PredictionGenerator.generate returns holds the point
\* forecast it returns and does not reach below 0, for every model fitted to
\* a series of counts: 0 <= lower <= predicted <= upper
IntervalHoldsForecast ==
  (result.fn = "fit" /\ \A i \in 1..Len(args.series) : args.series[i] >= 0) =>
    /\ 0 <= result.value.lower
    /\ result.value.lower <= result.value.pred
    /\ result.value.pred <= result.value.upper

ShortSeriesUndamped ==
  (/\ result.fn = "holtForecast options"
   /\ Len(args.series) >= 3
   /\ Len(args.series) < OptimizeFrom) =>
    LET r == SmoothAndScore(Data(args.series), args.alpha, args.beta, 1000)
    IN  /\ result.value.best.scored = 1
        /\ result.value.best.a = args.alpha
        /\ result.value.best.b = args.beta
        /\ result.value.best.phi = 1000
        /\ result.value.forecast = Max(0, RoundFx(HStepForecast(r.l, r.t, 1000, args.h)))

TrendFollowsHolt ==
  [][\A z \in Zones, count \in ManagerCounts :
       (ManagerUpdate(z, count) /\ models[z].isInitialized) =>
         models'[z].trend =
           MulPm(models[z].beta, models'[z].level - models[z].level)
             + MulPm(1000 - models[z].beta, models[z].trend)]_vars

\* C26: once the stop function of a loop has been called, no tick of that
\* loop begins any more, also when the stop came while a tick was in flight
StopIsFinal ==
  [][/\ PollerTimerFires => "poller" \notin stopped
     /\ PredictorTimerFires => "predictor" \notin stopped]_vars

\* C27: no accepted observation is lost when two updateModel calls for one
\* unknown zone overlap: the call that leaves its registration second finds
\* the model of the first in the store, and its update adds to what that
\* model has processed (after both, dataPointsProcessed = 2)
OverlappingUpdatesKept ==
  [][\A i \in 1..Len(requests), outcome \in AnyLoadOutcome :
       (/\ FinishRegistration(i, outcome)
        /\ requests[i].zone \in DOMAIN models
        /\ response'.status = 200) =>
         models'[requests[i].zone].dataPointsProcessed =
           models[requests[i].zone].dataPointsProcessed + 1]_vars

\* C28: a save issued by an earlier update of a model never overwrites the
\* snapshot written for a later update of it, in whatever order the saves
\* complete: where the row of the table and the row of the completing save
\* are both snapshots of the model in memory (entries of its history), the
\* table does not go back to fewer processed points
SaveKeepsLaterSnapshot ==
  [][\A s \in pendingSaves :
       LET z == s.zone
           IsSnapshot(row) ==
             /\ z \in DOMAIN models
             /\ row.data_points_processed \in 1..Len(models[z].history)
             /\ models[z].history[row.data_points_processed].level = row.level
             /\ models[z].history[row.data_points_processed].trend = row.trend
       IN  (/\ SaveCompletes(s)
            /\ z \in DOMAIN modelStates
            /\ IsSnapshot(s.row)
            /\ IsSnapshot(modelStates[z])) =>
             modelStates'[z].data_points_processed >= modelStates[z].data_points_processed]_vars

\* C29: a registration that restores a row saveModelState wrote leaves a
\* model with the saved level and trend and the saved dataPointsProcessed,
\* initialized, so that its next update applies Holt's equations and does
\* not start over from the observation
RestoreResumesModel ==
  [][\A i \in 1..Len(requests), outcome \in AnyLoadOutcome :
       (/\ InitializeBuildingReturns(i, outcome)
        /\ outcome.kind = "row"
        /\ outcome.row.data_points_processed >= 1) =>
         LET m == models'[requests[i].zone]
         IN  /\ m.level = outcome.row.level
             /\ m.trend = outcome.row.trend
             /\ m.dataPointsProcessed = outcome.row.data_points_processed
             /\ m.isInitialized]_vars

====
